---- MODULE Spec2Model ----
(***************************************************************************)
(* Verification model of bluebird, a curses mail reader.                   *)
(*                                                                         *)
(*   Spec        the activity stack of bluebird/app.py (Application and    *)
(*               the four Activity classes with their lifecycle callbacks) *)
(*   SpecView    the scrollable list of bluebird/views.py (ListView)       *)
(*   SpecAdapter the lazily populated, filterable list source of           *)
(*               bluebird/adapter.py (MailboxAdapter)                      *)
(*   SpecRebind  a ListView whose adapter is replaced while in use         *)
(*   SpecInbox   the list of the inbox screen over its MailboxAdapter      *)
(*   SpecApp     the application: the inbox and the screens it starts      *)
(*   SpecLazy    the inbox list over a mailbox only partly fetched         *)
(*   SpecScreens the screens the inbox starts, with their own lists        *)
(*                                                                         *)
(* Text is modelled as a sequence of one-character strings.                *)
(***************************************************************************)
EXTENDS Integers, Sequences, FiniteSets, TLC

VARIABLES
    stack,      \* Application._stack: sequence of activity instance ids
    act,        \* the activity instances: id -> fields
    nAlloc,     \* number of activity objects constructed so far
    status,     \* "running"; "aborted" once an exception left the event loop;
                \* "stopped" once the loop ended on an IndexError
    calls,      \* lifecycle callbacks made by the last operation, in call order
    op,         \* the last operation and its argument
    ret         \* what the last operation returned

VARIABLES
    lv,         \* a ListView: its fields
    src,        \* the adapter bound to the ListView
    vop         \* the last operation on the ListView and its argument

VARIABLES
    ad,         \* a MailboxAdapter: its mailbox and its fields
    aop,        \* the last operation on the adapter and its outcome
    pre         \* what the adapter answered when the last filter was applied

VARIABLES
    listviewpos \* InboxActivity._listviewpos: the cursor saved by a search

VARIABLES
    child,      \* the screen above the inbox: its ListView, the rows of its
                \* adapter and the message it shows
    attachment  \* MessageAdapter._attachment: row -> attachment, one
                \* dictionary shared by every MessageAdapter

svars == <<stack, act, nAlloc, status, calls, op, ret>>
vvars == <<lv, src, vop>>
avars == <<ad, aop, pre>>
ivars == <<listviewpos>>
cvars == <<child, attachment>>
vars == <<svars, vvars, avars, ivars, cvars>>
nonStack == <<vvars, avars, ivars, cvars>>
nonView == <<svars, avars, ivars, cvars>>
nonAdapter == <<svars, vvars, ivars, cvars>>

-----------------------------------------------------------------------------
(* Bounds *)

MaxDepth == 3
MaxInst == 3

-----------------------------------------------------------------------------
(* Activity stack: bluebird/app.py *)

Kinds == {"InboxActivity", "MailboxListActivity", "ProfileListActivity",
          "MessageActivity"}
ListKinds == {"MailboxListActivity", "ProfileListActivity"}

\* The thunderbird profiles on disk and the mbox files of each.
ProfileNames == {"default", "work"}
AllPaths == {"d/INBOX", "d/Sent", "w/INBOX"}
MbPaths(p) == IF p = "default" THEN {"d/INBOX", "d/Sent"} ELSE {"w/INBOX"}
EndsWithInbox(path) == path \in {"d/INBOX", "w/INBOX"}

\* ThunderReader._get_inbox_path: the first INBOX mailbox of the profile,
\* else the first mailbox.
InboxPath(p) ==
    IF \E q \in MbPaths(p) : EndsWithInbox(q)
    THEN CHOOSE q \in MbPaths(p) : EndsWithInbox(q)
    ELSE CHOOSE q \in MbPaths(p) : TRUE

\* A bundle is None or a one-key dictionary.
NoBundle == [key |-> "None", val |-> "None"]
Bundles ==
    {NoBundle}
    \cup {[key |-> "mailreader", val |-> v] : v \in {"ThunderReader", "str"}}
    \cup {[key |-> "message", val |-> v] : v \in {"Message", "str"}}
    \cup {[key |-> "mailbox_path", val |-> p] : p \in AllPaths}
    \cup {[key |-> "profilename", val |-> n] : n \in ProfileNames}

NoActivity ==
    [kind |-> "None", life |-> "None", creates |-> 0, profile |-> "None",
     mbpath |-> "None", priv |-> NoBundle]

\* A constructed activity object, before any callback.
NewActivity(kind) ==
    [kind |-> kind, life |-> "New", creates |-> 0, profile |-> "None",
     mbpath |-> "None", priv |-> NoBundle]

Ids == 1..(MaxInst + 1)
Top == stack[Len(stack)]
OnStack == {stack[i] : i \in 1..Len(stack)}
Front(s) == SubSeq(s, 1, Len(s) - 1)

Call(A, id, cb, b, nested) ==
    [id |-> id, cb |-> cb, b |-> b, nested |-> nested, from |-> A[id].life]

\* onCreate of each activity class: TRUE when it raises.
\* The list screens read bundle['mailreader'] and check its type (with no
\* bundle they read an attribute they do not have); the message screen does
\* the same with bundle['message'] (with no bundle it formats the header of
\* None).  The inbox ignores its bundle.
CreateRaises(kind, b) ==
    CASE kind = "InboxActivity" -> FALSE
      [] kind \in ListKinds ->
            ~(b.key = "mailreader" /\ b.val = "ThunderReader")
      [] kind = "MessageActivity" ->
            ~(b.key = "message" /\ b.val = "Message")

\* The body of onCreate.  The inbox fetches its mail reader, constructed on
\* first use with the default profile and that profile's inbox.
CreateBody(A, id) ==
    IF A[id].kind = "InboxActivity" /\ A[id].profile = "None"
    THEN [A EXCEPT ![id].creates = @ + 1,
                   ![id].profile = "default",
                   ![id].mbpath = InboxPath("default")]
    ELSE [A EXCEPT ![id].creates = @ + 1]

ResumeRecreatesAlways(a, b) == a.kind = "InboxActivity"

ResumeRecreatesNever(a, b) == FALSE

\* InboxActivity.onResume: does it call self.onCreate() again?
ResumeRecreates(a, b) ==
    /\ a.kind = "InboxActivity"
    /\ \/ b.key = "mailbox_path" /\ a.mbpath # b.val
       \/ b.key = "profilename" /\ a.profile # b.val

\* ThunderReader.mbpath setter: ignores a path that is not a mailbox of the
\* current profile.
SetMbPath(a, path) ==
    IF path \in MbPaths(a.profile) THEN [a EXCEPT !.mbpath = path] ELSE a

\* ThunderReader.profile setter: switches to the profile's inbox.
SetProfile(a, pname) ==
    [a EXCEPT !.profile = pname, !.mbpath = InboxPath(pname)]

\* What onResume does to the activity.
ResumeBody(A, id, b) ==
    IF ~ResumeRecreates(A[id], b) THEN A
    ELSE IF b.key = "mailbox_path"
         THEN CreateBody([A EXCEPT ![id] = SetMbPath(A[id], b.val)], id)
         ELSE CreateBody([A EXCEPT ![id] = SetProfile(A[id], b.val)], id)

\* onDestroy: the list screens return their private bundle, the others None.
DestroyResult(a) == IF a.kind \in ListKinds THEN a.priv ELSE NoBundle

\* A run is the activities together with the callbacks made so far by the
\* operation in progress.  Do* is the stack driver calling one callback.
Run0(A) == [A |-> A, log |-> <<>>]

DoPause(R, id) ==
    [A |-> [R.A EXCEPT ![id].life = "Paused"],
     log |-> Append(R.log, Call(R.A, id, "onPause", NoBundle, FALSE))]

DoCreate(R, id, b) ==
    [A |-> [CreateBody(R.A, id) EXCEPT ![id].life = "Created"],
     log |-> Append(R.log, Call(R.A, id, "onCreate", b, FALSE))]

DoResume(R, id, b) ==
    [A |-> [ResumeBody(R.A, id, b) EXCEPT ![id].life = "Resumed"],
     log |-> Append(R.log, Call(R.A, id, "onResume", b, FALSE))
             \o (IF ResumeRecreates(R.A[id], b)
                 THEN <<Call(R.A, id, "onCreate", NoBundle, TRUE)>>
                 ELSE <<>>)]

\* After onDestroy nothing refers to the object any more; only its class and
\* callback history are kept.  The log entry of onDestroy carries the value
\* it returned.
DoDestroy(R, id) ==
    [A |-> [R.A EXCEPT ![id] = [NoActivity EXCEPT !.kind = R.A[id].kind,
                                                  !.life = "Destroyed",
                                                  !.creates = R.A[id].creates]],
     log |-> Append(R.log, Call(R.A, id, "onDestroy", DestroyResult(R.A[id]),
                                FALSE))]

\* try: self._stack[-1].onPause()  except: pass
PausePrevious(R, s) == IF s # <<>> THEN DoPause(R, s[Len(s)]) ELSE R

PushRunNoPause(A, s, id, b) ==
    DoResume(DoCreate(Run0(A), id, b), id, b)

PushRunResumeNoBundle(A, s, id, b) ==
    DoResume(DoCreate(PausePrevious(Run0(A), s), id, b), id, NoBundle)

\* The callbacks of _startActivity when onCreate does not raise.
PushRun(A, s, id, b) ==
    DoResume(DoCreate(PausePrevious(Run0(A), s), id, b), id, b)

PopRunNoPause(A, s) ==
    LET a == s[Len(s)]
        rest == Front(s)
        R == DoDestroy(Run0(A), a)
    IN  IF rest = <<>> THEN R
        ELSE DoResume(R, rest[Len(rest)], DestroyResult(A[a]))

PopRunResumeNone(A, s) ==
    LET a == s[Len(s)]
        rest == Front(s)
        R == DoDestroy(DoPause(Run0(A), a), a)
    IN  IF rest = <<>> THEN R
        ELSE DoResume(R, rest[Len(rest)], NoBundle)

\* The callbacks of _destroyActivity once the target is the top s[-1]:
\* onPause and onDestroy of the popped activity, then onResume of the one
\* beneath with what onDestroy returned.
PopRun(A, s) ==
    LET a == s[Len(s)]
        rest == Front(s)
        R == DoDestroy(DoPause(Run0(A), a), a)
    IN  IF rest = <<>> THEN R
        ELSE DoResume(R, rest[Len(rest)], DestroyResult(A[a]))

PopResultAlwaysTrue(rest) == "True"

\* What _destroyActivity returns after popping the top: resuming
\* self._stack[-1] on the emptied stack raises IndexError, which is caught.
PopResult(rest) == IF rest = <<>> THEN "False" ELSE "True"

\* What _destroyActivity returns when the named activity is not the top:
\* ValueError is raised inside the try, and the return in the finally clause
\* discards it.
NotTopResult == "True"

\* Application._startActivity(kind(), bundle)
StartActivity(kind, b) ==
    /\ status = "running"
    /\ UNCHANGED nonStack
    /\ Len(stack) < MaxDepth
    /\ nAlloc < MaxInst
    /\ LET id == nAlloc + 1
           A0 == [act EXCEPT ![id] = NewActivity(kind)]
           R1 == PausePrevious(Run0(A0), stack)
           R == PushRun(A0, stack, id, b)
       IN  /\ nAlloc' = id
           /\ stack' = Append(stack, id)
           /\ op' = [name |-> "push", arg |-> id, hit |-> TRUE, b |-> b]
           /\ IF CreateRaises(kind, b)
              THEN /\ act' = R1.A
                   /\ calls' = Append(R1.log, Call(R1.A, id, "onCreate", b, FALSE))
                   /\ status' = "aborted"
                   /\ ret' = "raise"
              ELSE /\ act' = R.A
                   /\ calls' = R.log
                   /\ status' = "running"
                   /\ ret' = "None"

\* _destroyActivity on an empty stack: self._stack[-1] raises IndexError.
PopEmpty(name, a) ==
    /\ op' = [name |-> name, arg |-> a, hit |-> FALSE, b |-> NoBundle]
    /\ ret' = "False"
    /\ calls' = <<>>
    /\ UNCHANGED <<stack, act, nAlloc, status>>

\* Application._destroyActivity()
DestroyActivity ==
    /\ status = "running"
    /\ UNCHANGED nonStack
    /\ IF stack = <<>>
       THEN PopEmpty("pop", 0)
       ELSE /\ stack' = Front(stack)
            /\ act' = PopRun(act, stack).A
            /\ calls' = PopRun(act, stack).log
            /\ ret' = PopResult(Front(stack))
            /\ op' = [name |-> "pop", arg |-> Top, hit |-> TRUE, b |-> NoBundle]
            /\ UNCHANGED <<nAlloc, status>>

\* Application._destroyActivity(activity)
DestroyActivityNamed(a) ==
    /\ status = "running"
    /\ UNCHANGED nonStack
    /\ a \in 1..nAlloc
    /\ IF stack = <<>>
       THEN PopEmpty("popNamed", a)
       ELSE IF a # Top
       THEN /\ op' = [name |-> "popNamed", arg |-> a, hit |-> FALSE,
                      b |-> NoBundle]
            /\ ret' = NotTopResult
            /\ calls' = <<>>
            /\ UNCHANGED <<stack, act, nAlloc, status>>
       ELSE /\ stack' = Front(stack)
            /\ act' = PopRun(act, stack).A
            /\ calls' = PopRun(act, stack).log
            /\ ret' = PopResult(Front(stack))
            /\ op' = [name |-> "popNamed", arg |-> a, hit |-> TRUE,
                      b |-> NoBundle]
            /\ UNCHANGED <<nAlloc, status>>

\* Enter on a list screen: store the selected row in the private bundle and
\* finish(), which is _destroyActivity(self) with the result dropped.
Finish(sel) ==
    /\ status = "running"
    /\ UNCHANGED nonStack
    /\ stack # <<>>
    /\ act[Top].kind \in ListKinds
    /\ LET key == IF act[Top].kind = "MailboxListActivity"
                  THEN "mailbox_path" ELSE "profilename"
           A0 == [act EXCEPT ![Top].priv = [key |-> key, val |-> sel]]
       IN  /\ sel \in (IF key = "mailbox_path" THEN AllPaths ELSE ProfileNames)
           /\ stack' = Front(stack)
           /\ act' = PopRun(A0, stack).A
           /\ calls' = PopRun(A0, stack).log
           /\ ret' = "None"
           /\ op' = [name |-> "finish", arg |-> Top, hit |-> TRUE,
                     b |-> NoBundle]
           /\ UNCHANGED <<nAlloc, status>>

\* What onKey returns for a key that no view claims and the screen's own
\* branches do not recognise.  The inbox and the message screen fall through
\* to Activity.onKey, which returns False.  The two list screens end with
\* super(InboxActivity, self).onKey(ch): self is not an InboxActivity there,
\* so super() raises TypeError.
UnhandledKey(kind) ==
    CASE kind = "InboxActivity" -> "False"
      [] kind = "MessageActivity" -> "False"
      [] kind \in ListKinds -> "TypeError"

\* _eventloop reads a key other than q that nothing recognises and hands it
\* to self._stack[-1].onKey(ch); only IndexError is caught there, any other
\* exception leaves the loop.
OnKeyUnhandled ==
    /\ status = "running"
    /\ UNCHANGED nonStack
    /\ stack # <<>>
    /\ op' = [name |-> "key", arg |-> Top, hit |-> FALSE, b |-> NoBundle]
    /\ ret' = UnhandledKey(act[Top].kind)
    /\ status' = IF UnhandledKey(act[Top].kind) = "False"
                 THEN "running" ELSE "aborted"
    /\ calls' = <<>>
    /\ UNCHANGED <<stack, act, nAlloc>>

QuitKeyEndsLoop ==
    /\ status = "running"
    /\ UNCHANGED nonStack
    /\ op' = [name |-> "quit", arg |-> IF stack = <<>> THEN 0 ELSE Top,
              hit |-> stack # <<>>, b |-> NoBundle]
    /\ IF stack = <<>>
       THEN /\ calls' = <<>>
            /\ UNCHANGED <<stack, act>>
       ELSE /\ stack' = Front(stack)
            /\ act' = PopRun(act, stack).A
            /\ calls' = PopRun(act, stack).log
    /\ ret' = "False"
    /\ status' = "stopped"
    /\ UNCHANGED nAlloc

\* _eventloop reads q or Q: _destroyActivity() pops the top, and the loop
\* ends when that returned False.
QuitKey ==
    /\ status = "running"
    /\ UNCHANGED nonStack
    /\ op' = [name |-> "quit", arg |-> IF stack = <<>> THEN 0 ELSE Top,
              hit |-> stack # <<>>, b |-> NoBundle]
    /\ IF stack = <<>>
       THEN /\ ret' = "False"
            /\ calls' = <<>>
            /\ UNCHANGED <<stack, act>>
       ELSE /\ stack' = Front(stack)
            /\ act' = PopRun(act, stack).A
            /\ calls' = PopRun(act, stack).log
            /\ ret' = PopResult(Front(stack))
    /\ status' = IF ret' = "False" THEN "stopped" ELSE "running"
    /\ UNCHANGED nAlloc

InitStack ==
    /\ stack = <<>>
    /\ act = [i \in Ids |-> NoActivity]
    /\ nAlloc = 0
    /\ status = "running"
    /\ calls = <<>>
    /\ op = [name |-> "init", arg |-> 0, hit |-> FALSE, b |-> NoBundle]
    /\ ret = "None"

StackNext ==
    \/ \E k \in Kinds, b \in Bundles : StartActivity(k, b)
    \/ DestroyActivity
    \/ \E a \in Ids : DestroyActivityNamed(a)
    \/ \E sel \in AllPaths \cup ProfileNames : Finish(sel)
    \/ OnKeyUnhandled
    \/ QuitKey

-----------------------------------------------------------------------------
(* Scrollable list: bluebird/views.py *)

MaxHeight == 3
MaxRows == 4
MaxX == 1

Min(S) == CHOOSE x \in S : \A y \in S : x <= y
Max(S) == CHOOSE x \in S : \A y \in S : x >= y

\* str.find(pat, start): the lowest 0-based index >= start at which pat
\* occurs in line, or -1.
Find(line, pat, start) ==
    LET hits == {i \in start..(Len(line) - Len(pat)) :
                    SubSeq(line, i + 1, i + Len(pat)) = pat}
    IN  IF hits = {} THEN -1 ELSE Min(hits)

\* The loop of highlighttext over one line: the offsets found from x on.
RECURSIVE FindFrom(_, _, _)
FindFrom(line, pat, x) ==
    IF x < 0 THEN <<>>
    ELSE <<x>> \o FindFrom(line, pat, Find(line, pat, x + 1))

\* The rows a list can show and the patterns a user can search for.
RowTexts == {<<"a", "a">>, <<"b">>}
Patterns == {<<"a">>, <<"a", "a">>, <<"c">>, <<"A">>, <<>>}

RECURSIVE SeqsUpTo(_, _)
SeqsUpTo(S, n) ==
    IF n = 0 THEN {<<>>}
    ELSE LET shorter == SeqsUpTo(S, n - 1)
         IN  shorter \cup {Append(q, x) : q \in {r \in shorter : Len(r) = n - 1},
                                           x \in S}

Sources == SeqsUpTo(RowTexts, MaxRows)

\* ListView.__init__ on a window of maxy rows.
NewListView(maxy) ==
    [maxy |-> maxy, pos |-> 0, x |-> 0, top |-> 0, bottom |-> maxy,
     end |-> 0, highlight |-> FALSE, hltext |-> <<>>, hlcoord |-> <<>>]

SetAdapterReset(v, n) ==
    [v EXCEPT !.end = n, !.pos = 0, !.top = 0, !.bottom = v.maxy,
              !.highlight = FALSE, !.hltext = <<>>, !.hlcoord = <<>>]

\* ListView.adapter setter; n is len(adapter).
SetAdapter(v, n) == [v EXCEPT !.end = n]

MoveDropsHighlight(v, y, n) ==
    IF y = v.pos \/ y < 0 \/ y >= n THEN v
    ELSE [v EXCEPT !.pos = y, !.top = Min({@, y}),
                   !.highlight = FALSE, !.hltext = <<>>, !.hlcoord = <<>>]

\* ListView._move(y); n is len(adapter).
Move(v, y, n) ==
    IF y = v.pos THEN v
    ELSE IF y >= 0 /\ y < n
    THEN IF y < v.top
         THEN [v EXCEPT !.top = y,
                        !.bottom = Min({y + v.maxy, n}),
                        !.pos = y]
         ELSE IF y > v.bottom
         THEN LET b == Min({y + v.maxy, n})
              IN  [v EXCEPT !.bottom = b,
                            !.top = Max({b - v.maxy, 0}),
                            !.pos = y]
         ELSE [v EXCEPT !.pos = y]
    ELSE v

KeyUpNoScroll(v) == IF v.pos > 0 THEN [v EXCEPT !.pos = @ - 1] ELSE v

\* ListView.onKey: up arrow / k
KeyUp(v) ==
    IF v.pos > 0
    THEN IF v.pos - 1 < v.top
         THEN [v EXCEPT !.pos = @ - 1, !.top = @ - 1, !.bottom = @ - 1]
         ELSE [v EXCEPT !.pos = @ - 1]
    ELSE v

KeyDownPastEnd(v, n) ==
    IF v.pos + 1 >= v.bottom
    THEN [v EXCEPT !.pos = @ + 1, !.top = @ + 1, !.bottom = @ + 1]
    ELSE [v EXCEPT !.pos = @ + 1]

\* ListView.onKey: down arrow / j
KeyDown(v, n) ==
    IF v.pos < n - 1
    THEN IF v.pos + 1 >= v.bottom
         THEN [v EXCEPT !.pos = @ + 1, !.top = @ + 1, !.bottom = @ + 1]
         ELSE [v EXCEPT !.pos = @ + 1]
    ELSE v

\* ListView.onKey: previous page
KeyPPage(v) ==
    LET tmp == v.pos - v.maxy - 1
    IN  IF tmp <= 0
        THEN [v EXCEPT !.pos = 0, !.top = 0, !.bottom = v.maxy]
        ELSE [v EXCEPT !.pos = tmp, !.top = tmp, !.bottom = tmp + v.maxy]

\* ListView.onKey: next page
KeyNPage(v, n) ==
    LET tmp == v.pos + v.maxy - 1
    IN  IF tmp >= n - 1
        THEN [v EXCEPT !.pos = n - 1, !.bottom = n, !.top = n - v.maxy]
        ELSE LET b == Min({tmp + v.maxy, n})
             IN  [v EXCEPT !.pos = tmp, !.bottom = b, !.top = b - v.maxy]

\* ListView.onKey: left arrow / h
KeyLeft(v) == IF v.x > 0 THEN [v EXCEPT !.x = @ - 1] ELSE v

\* ListView.onKey: right arrow / l
KeyRight(v) == [v EXCEPT !.x = @ + 1]

KeyNextWrap(v, n) ==
    LET after == {y \in (v.pos + 1)..(v.end - 1) : y \in DOMAIN v.hlcoord}
        any == {y \in 0..(v.end - 1) : y \in DOMAIN v.hlcoord}
    IN  IF after # {} THEN Move(v, Min(after), n)
        ELSE IF any # {} THEN Move(v, Min(any), n)
        ELSE v

\* ListView.onKey: n / N while highlighting: the first recorded row in
\* range(pos + 1, _end).
KeyNext(v, n) ==
    LET after == {y \in (v.pos + 1)..(v.end - 1) : y \in DOMAIN v.hlcoord}
    IN  IF after = {} THEN v ELSE Move(v, Min(after), n)

\* ListView.onKey: p / P while highlighting: the first recorded row in
\* range(pos - 1, 0, -1).
KeyPrev(v, n) ==
    LET before == {y \in 1..(v.pos - 1) : y \in DOMAIN v.hlcoord}
    IN  IF before = {} THEN v ELSE Move(v, Max(before), n)

\* highlighttext: the dictionary coord, row -> offsets, over the rows the
\* adapter's iterator yields (row y is lines[y + 1]).
Coordinates(lines, pat) ==
    LET hit == {y \in 0..(Len(lines) - 1) : Find(lines[y + 1], pat, 0) >= 0}
    IN  [y \in hit |-> FindFrom(lines[y + 1], pat, Find(lines[y + 1], pat, 0))]

HighlightTextFirst(v, pat, lines, n) ==
    LET coord == Coordinates(lines, pat)
    IN  IF DOMAIN coord = {} THEN v
        ELSE Move([v EXCEPT !.highlight = TRUE, !.hltext = pat,
                            !.hlcoord = coord], Min(DOMAIN coord), n)

HighlightTextNotFoundClears(v, pat, lines, n) ==
    LET coord == Coordinates(lines, pat)
        ahead == {y \in DOMAIN coord : y >= v.pos}
        hly == IF ahead = {} THEN v.pos ELSE Min(ahead)
    IN  IF DOMAIN coord = {}
        THEN [v EXCEPT !.highlight = FALSE, !.hltext = <<>>, !.hlcoord = <<>>]
        ELSE Move([v EXCEPT !.highlight = TRUE, !.hltext = pat,
                            !.hlcoord = coord], hly, n)

\* ListView.highlighttext(pattern); lines are the rows iter(adapter) yields,
\* n is len(adapter).
HighlightText(v, pat, lines, n) ==
    LET coord == Coordinates(lines, pat)
        ahead == {y \in DOMAIN coord : y >= v.pos}
        hly == IF ahead = {} THEN v.pos ELSE Min(ahead)
    IN  IF DOMAIN coord = {} THEN v
        ELSE Move([v EXCEPT !.highlight = TRUE, !.hltext = pat,
                            !.hlcoord = coord], hly, n)

\* What highlighttext returns.
HighlightCount(pat, lines) == Cardinality(DOMAIN Coordinates(lines, pat))

\* The adapter of the list: not yet assigned, or a BaseAdapter over rows.
NoAdapter == [set |-> FALSE, data |-> <<>>]
BaseAdapter(rows) == [set |-> TRUE, data |-> rows]
SrcLen == Len(src.data)

VOp(name, arg) == [name |-> name, arg |-> arg, pat |-> <<>>]

\* Every activity assigns the adapter once, to the list it has just built.
VSetAdapter(rows) ==
    /\ ~src.set
    /\ lv' = SetAdapter(lv, Len(rows))
    /\ src' = BaseAdapter(rows)
    /\ vop' = VOp("adapter", Len(rows))
    /\ UNCHANGED nonView

\* The adapter setter called on a list that already has an adapter and has
\* been scrolled; the new adapter is empty or has one row.
RebindSources == {<<>>, <<<<"b">>>>}
VRebind(rows) ==
    /\ src.set
    /\ lv' = SetAdapter(lv, Len(rows))
    /\ src' = BaseAdapter(rows)
    /\ vop' = VOp("rebind", Len(rows))
    /\ UNCHANGED nonView

\* onKey returns False without looking at the key while no adapter is set.
VKey(name, v) ==
    /\ src.set
    /\ lv' = v
    /\ vop' = VOp(name, 0)
    /\ UNCHANGED <<src, nonView>>

VUp == VKey("up", KeyUp(lv))
VDown == VKey("down", KeyDown(lv, SrcLen))
VPPage == VKey("ppage", KeyPPage(lv))
VNPage == VKey("npage", KeyNPage(lv, SrcLen))
VLeft == VKey("left", KeyLeft(lv))
VRight == lv.x < MaxX /\ VKey("right", KeyRight(lv))
VNext == lv.highlight /\ VKey("next", KeyNext(lv, SrcLen))
VPrev == lv.highlight /\ VKey("prev", KeyPrev(lv, SrcLen))

VMove(y) ==
    /\ src.set
    /\ lv' = Move(lv, y, SrcLen)
    /\ vop' = VOp("move", y)
    /\ UNCHANGED <<src, nonView>>

VHighlight(pat) ==
    /\ src.set
    /\ lv' = HighlightText(lv, pat, src.data, SrcLen)
    /\ vop' = [name |-> "highlight",
               arg |-> HighlightCount(pat, src.data), pat |-> pat]
    /\ UNCHANGED <<src, nonView>>

InitView ==
    /\ lv \in {NewListView(h) : h \in 1..MaxHeight}
    /\ src = NoAdapter
    /\ vop = VOp("init", 0)

ViewNext ==
    \/ \E rows \in Sources : VSetAdapter(rows)
    \/ VUp
    \/ VDown
    \/ VPPage
    \/ VNPage
    \/ VLeft
    \/ VRight
    \/ VNext
    \/ VPrev
    \/ \E y \in (-1)..MaxRows : VMove(y)
    \/ \E pat \in Patterns : VHighlight(pat)

\* A list whose adapter is replaced while it is in use.
RebindNext ==
    \/ \E rows \in Sources : VSetAdapter(rows)
    \/ VDown
    \/ VNPage
    \/ \E pat \in Patterns : VHighlight(pat)
    \/ \E rows \in RebindSources : VRebind(rows)

-----------------------------------------------------------------------------
(* List source: bluebird/adapter.py *)

InitFetch == 30     \* rows fetched by MailboxAdapter.__init__
FetchBatch == 10    \* rows fetched by one __getitem__ miss
FromWidth == 15     \* width of the sender column
MaxMsgs == 3        \* longest mailbox with freely chosen messages
MaxExtra == 12      \* a long mailbox has up to InitFetch + MaxExtra messages
MaxDay == 3         \* message dates are the days 1..MaxDay

\* str.lower() on the letters the model uses.
Lower(c) ==
    CASE c = "A" -> "a" [] c = "B" -> "b" [] c = "C" -> "c"
      [] c = "F" -> "f" [] c = "S" -> "s" [] c = "D" -> "d"
      [] OTHER -> c
LowerStr(t) == [i \in 1..Len(t) |-> Lower(t[i])]

\* pat in text
Contains(t, pat) == Find(t, pat, 0) >= 0

\* str.split(): the maximal runs of non-blank characters.
RECURSIVE SplitAcc(_, _, _)
SplitAcc(t, cur, acc) ==
    IF t = <<>> THEN (IF cur = <<>> THEN acc ELSE Append(acc, cur))
    ELSE IF Head(t) = " "
         THEN SplitAcc(Tail(t), <<>>,
                       IF cur = <<>> THEN acc ELSE Append(acc, cur))
         ELSE SplitAcc(Tail(t), Append(cur, Head(t)), acc)
Split(t) == SplitAcc(t, <<>>, <<>>)

\* ' '.join(tokens)
RECURSIVE Join(_)
Join(tokens) ==
    IF tokens = <<>> THEN <<>>
    ELSE IF Len(tokens) = 1 THEN tokens[1]
    ELSE tokens[1] \o <<" ">> \o Join(Tail(tokens))

\* str.strip()
RECURSIVE LStrip(_)
LStrip(t) == IF t # <<>> /\ Head(t) = " " THEN LStrip(Tail(t)) ELSE t
RECURSIVE RStrip(_)
RStrip(t) ==
    IF t # <<>> /\ t[Len(t)] = " " THEN RStrip(SubSeq(t, 1, Len(t) - 1)) ELSE t
Strip(t) == RStrip(LStrip(t))

\* t[:w].ljust(w)
Take(t, w) == SubSeq(t, 1, Min({Len(t), w}))
Ljust(t, w) == t \o [i \in 1..(w - Len(t)) |-> " "]

\* The word loop of __pretty_from: the longest run of leading words, each
\* followed by one blank, that fits the column.
RECURSIVE FromWords(_, _, _)
FromWords(words, tmp, sender) ==
    IF words = <<>> THEN sender
    ELSE LET t == tmp \o Head(words) \o <<" ">>
         IN  IF Len(t) > FromWidth THEN sender
             ELSE FromWords(Tail(words), t, t)

\* sender[1:sender.index(close, 1)], or sender[1:] when close is missing.
Unquote(sender, close) ==
    LET k == Find(sender, <<close>>, 1)
    IN  IF k < 0 THEN Tail(sender) ELSE SubSeq(sender, 2, k)

\* MailboxAdapter.__pretty_from
PrettyFrom(sender) ==
    LET inner == IF sender # <<>> /\ Head(sender) = "\""
                 THEN Unquote(sender, "\"")
                 ELSE IF sender # <<>> /\ Head(sender) = "<"
                 THEN Unquote(sender, ">")
                 ELSE sender
    IN  Ljust(Take(FromWords(Split(inner), <<>>, inner), FromWidth), FromWidth)

\* A message: sender, subject and body text, the day of its Date header
\* (0 when the header does not parse) and whether it is multipart.
Msg(f, sj, b, d, mp) ==
    [from |-> f, subject |-> sj, body |-> b, date |-> d, multipart |-> mp]

MsgA == Msg(<<"A">>, <<"A">>, <<"A">>, 3, FALSE)
MsgB == Msg(<<"B">>, <<"B">>, <<"B">>, 2, TRUE)
MsgC == Msg(<<"C">>, <<"C">>, <<"C">>, 1, FALSE)
MsgMixed == Msg(<<"a", " ", "A">>, <<" ", "b">>, <<"C", "b">>, 0, FALSE)
MsgSet == {MsgA, MsgB, MsgC, MsgMixed}

\* The mailboxes: every short one, and long ones that reach past the rows
\* fetched at construction.
LongMailbox(n) == [i \in 1..n |-> IF i % 2 = 1 THEN MsgA ELSE MsgB]
Mailboxes ==
    SeqsUpTo(MsgSet, MaxMsgs)
    \cup {LongMailbox(InitFetch + k) : k \in (MaxExtra - 3)..MaxExtra}

\* What the user can type in the search line.  "D1".."D3" stand for the
\* dates dd/mm/yyyy of the days 1..3.
Queries ==
    { <<"b">>, <<"B">>, <<"A">>, <<"C", "b">>, <<>>, <<" ">>, <<"f">>,
      <<"f", " ", "A">>, <<"F", " ", "a">>, <<"s", " ", "b">>,
      <<"d", " ", "D1", " ", "D2">>, <<"d", " ", "D2", " ", "D1">>,
      <<"d", " ", "D2">>,
      <<"d", " ", "b">>, <<"d", " ", "D1", " ", "b">> }

\* The Date header as shown in a row.
PrettyDate(d) == d

\* MailboxAdapter.__headerline(message, number)
HeaderLine(m, number) ==
    [num |-> number + 1,
     att |-> m.multipart,
     date |-> PrettyDate(m.date),
     from |-> PrettyFrom(m.from),
     subject |-> Strip(m.subject)]

NoRow == [num |-> 0, att |-> FALSE, date |-> 0, from |-> <<>>, subject |-> <<>>]

\* The rows of messages first..last-1 (0-based), stopping at the end of the
\* mailbox (KeyError).
FetchRows(mb, first, last) ==
    [k \in 1..(Min({last, Len(mb)}) - first) |-> HeaderLine(mb[first + k],
                                                            first + k - 1)]

\* MailboxAdapter.__init__
NewMailboxAdapter(mb) ==
    [mailbox |-> mb,
     data |-> FetchRows(mb, 0, InitFetch),
     filtered |-> FALSE,
     fdata |-> <<>>]

\* list[key] with Python's negative indices; ok is FALSE on IndexError.
PyIndex(rows, key) ==
    IF 0 <= key /\ key < Len(rows) THEN [ok |-> TRUE, val |-> rows[key + 1]]
    ELSE IF key < 0 /\ -key <= Len(rows)
         THEN [ok |-> TRUE, val |-> rows[Len(rows) + key + 1]]
         ELSE [ok |-> FALSE, val |-> NoRow]

\* for n, m in enumerate(self._mailbox): the rows of the messages whose
\* 1-based positions are in kept, in mailbox order.
RECURSIVE Ascending(_)
Ascending(S) ==
    IF S = {} THEN <<>> ELSE <<Min(S)>> \o Ascending(S \ {Min(S)})
RowsAt(mb, kept) ==
    LET idx == Ascending(kept)
    IN  [k \in 1..Len(idx) |-> HeaderLine(mb[idx[k]], idx[k] - 1)]

\* MailboxAdapter.__filterby_header
FilterByHeader(mb, param, pat) ==
    RowsAt(mb, {n \in 1..Len(mb) :
                   Contains(IF param = "from" THEN mb[n].from
                            ELSE mb[n].subject, pat)})

FilterLowered(mb, pat) ==
    RowsAt(mb, {n \in 1..Len(mb) :
                   \/ Contains(LowerStr(mb[n].from), LowerStr(pat))
                   \/ Contains(LowerStr(mb[n].subject), LowerStr(pat))
                   \/ Contains(LowerStr(mb[n].body), LowerStr(pat))})

FilterMaterialized(mb, pat) ==
    RowsAt(mb, {n \in 1..Min({Len(mb), InitFetch}) :
                   \/ Contains(mb[n].from, pat)
                   \/ Contains(mb[n].subject, pat)
                   \/ Contains(mb[n].body, pat)})

\* MailboxAdapter.__filter
Filter(mb, pat) ==
    RowsAt(mb, {n \in 1..Len(mb) : \/ Contains(mb[n].from, pat)
                                   \/ Contains(mb[n].subject, pat)
                                   \/ Contains(mb[n].body, pat)})

\* strptime(token, '%d/%m/%Y'): the day, or 0 on ValueError.
ParseDate(tok) ==
    CASE tok = <<"D1">> -> 1 [] tok = <<"D2">> -> 2 [] tok = <<"D3">> -> 3
      [] OTHER -> 0

\* datetime.now(): after every message of the mailbox.
Today == MaxDay + 1

RECURSIVE DateScanNoBreak(_, _, _, _)
DateScanNoBreak(mb, n, hi, lo) ==
    IF n > Len(mb) THEN <<>>
    ELSE IF mb[n].date = 0 \/ mb[n].date > hi \/ mb[n].date < lo
    THEN DateScanNoBreak(mb, n + 1, hi, lo)
    ELSE <<HeaderLine(mb[n], n - 1)>> \o DateScanNoBreak(mb, n + 1, hi, lo)

\* The loop of __filterby_date: newest message first, skipping what is newer
\* than hi or undated, and stopping at the first message older than lo.
RECURSIVE DateScan(_, _, _, _)
DateScan(mb, n, hi, lo) ==
    IF n > Len(mb) THEN <<>>
    ELSE IF mb[n].date = 0 \/ mb[n].date > hi THEN DateScan(mb, n + 1, hi, lo)
    ELSE IF mb[n].date < lo THEN <<>>
    ELSE <<HeaderLine(mb[n], n - 1)>> \o DateScan(mb, n + 1, hi, lo)

FilterByDateNoSwap(mb, date1, date2) ==
    LET dt1 == ParseDate(date1)
        dt2 == IF date2 = <<>> THEN Today ELSE ParseDate(date2)
    IN  IF dt2 = 0 \/ dt1 = 0 THEN [ok |-> FALSE, rows |-> <<>>]
        ELSE [ok |-> TRUE, rows |-> DateScan(mb, 1, dt1, dt2)]

\* MailboxAdapter.__filterby_date(date1, date2); date2 = <<>> stands for
\* None.  ok is FALSE when it raises: a second date that does not parse
\* (ValueError), or a first date that does not parse (None compared with a
\* datetime).
FilterByDate(mb, date1, date2) ==
    LET dt1 == ParseDate(date1)
        dt2 == IF date2 = <<>> THEN Today ELSE ParseDate(date2)
        hi == Max({dt1, dt2})
        lo == Min({dt1, dt2})
    IN  IF dt2 = 0 \/ dt1 = 0 THEN [ok |-> FALSE, rows |-> <<>>]
        ELSE [ok |-> TRUE, rows |-> DateScan(mb, 1, hi, lo)]

\* MailboxAdapter.isfiltered
IsFiltered(a) == a.filtered

UnfilterKeepsRows(a) == [a EXCEPT !.filtered = FALSE, !.data = a.fdata]

\* MailboxAdapter.unfilter
Unfilter(a) == [a EXCEPT !.filtered = FALSE, !.fdata = <<>>]

\* MailboxAdapter.filterby(pattern): the rows it stores, with ok FALSE when
\* it raises (then nothing is stored).
FilterRows(mb, pattern) ==
    LET p == Split(LowerStr(pattern))
    IN  IF p = <<>> THEN [ok |-> FALSE, rows |-> <<>>]
        ELSE IF p[1] \in {<<"f", "r", "o", "m">>, <<"f">>} /\ Len(p) > 1
        THEN [ok |-> TRUE, rows |-> FilterByHeader(mb, "from", Join(Tail(p)))]
        ELSE IF p[1] \in {<<"s", "u", "b", "j", "e", "c", "t">>, <<"s">>}
                /\ Len(p) > 1
        THEN [ok |-> TRUE,
              rows |-> FilterByHeader(mb, "subject", Join(Tail(p)))]
        ELSE IF p[1] \in {<<"d", "a", "t", "e">>, <<"d">>} /\ Len(p) > 1
        THEN IF Len(p) > 2 THEN FilterByDate(mb, p[2], p[3])
             ELSE FilterByDate(mb, p[2], <<>>)
        ELSE [ok |-> TRUE, rows |-> Filter(mb, pattern)]

\* Does filterby treat the query as a plain substring search?
IsPlain(pattern) ==
    LET p == Split(LowerStr(pattern))
    IN  /\ p # <<>>
        /\ ~(Len(p) > 1 /\ p[1] \in {<<"f", "r", "o", "m">>, <<"f">>,
                                      <<"s", "u", "b", "j", "e", "c", "t">>,
                                      <<"s">>, <<"d", "a", "t", "e">>, <<"d">>})

FilterByAgain(a, pattern) ==
    IF FilterRows(a.mailbox, pattern).ok
    THEN [a EXCEPT !.filtered = TRUE,
                   !.fdata = FilterRows(a.mailbox, pattern).rows]
    ELSE a

\* MailboxAdapter.filterby(pattern)
FilterBy(a, pattern) ==
    IF a.filtered THEN a
    ELSE IF FilterRows(a.mailbox, pattern).ok
         THEN [a EXCEPT !.filtered = TRUE,
                        !.fdata = FilterRows(a.mailbox, pattern).rows]
         ELSE a

\* MailboxAdapter.__len__
Length(a) == IF a.filtered THEN Len(a.fdata) ELSE Len(a.mailbox)

GetItemAlwaysFetches(a, key) ==
    IF a.filtered /\ PyIndex(a.fdata, key).ok
    THEN [ok |-> TRUE, val |-> PyIndex(a.fdata, key).val, a |-> a]
    ELSE IF ~a.filtered /\ PyIndex(a.data, key).ok
    THEN [ok |-> TRUE, val |-> PyIndex(a.data, key).val, a |-> a]
    ELSE LET len == Len(a.data)
             more == a.data \o FetchRows(a.mailbox, len, len + FetchBatch)
             rows == IF a.filtered THEN a.fdata ELSE more
         IN  [ok |-> PyIndex(rows, key).ok, val |-> PyIndex(rows, key).val,
              a |-> [a EXCEPT !.data = more]]

GetItemDropsRows(a, key) ==
    IF a.filtered
    THEN [ok |-> PyIndex(a.fdata, key).ok, val |-> PyIndex(a.fdata, key).val,
          a |-> a]
    ELSE IF PyIndex(a.data, key).ok
    THEN [ok |-> TRUE, val |-> PyIndex(a.data, key).val, a |-> a]
    ELSE LET len == Len(a.data)
             more == FetchRows(a.mailbox, len, len + FetchBatch)
         IN  [ok |-> PyIndex(more, key).ok, val |-> PyIndex(more, key).val,
              a |-> [a EXCEPT !.data = more]]

\* MailboxAdapter.__getitem__(key): the answer (ok FALSE on IndexError) and
\* the adapter afterwards.
GetItem(a, key) ==
    IF a.filtered
    THEN [ok |-> PyIndex(a.fdata, key).ok, val |-> PyIndex(a.fdata, key).val,
          a |-> a]
    ELSE IF PyIndex(a.data, key).ok
    THEN [ok |-> TRUE, val |-> PyIndex(a.data, key).val, a |-> a]
    ELSE LET len == Len(a.data)
             more == a.data \o FetchRows(a.mailbox, len, len + FetchBatch)
         IN  [ok |-> PyIndex(more, key).ok, val |-> PyIndex(more, key).val,
              a |-> [a EXCEPT !.data = more]]

\* MailboxAdapter.__iter__
Iter(a) == IF a.filtered THEN a.fdata ELSE a.data

\* What get(i) would answer for every i from 0 to the logical length.
Answers(a) ==
    [k \in 1..(Len(a.mailbox) + 1) |->
        [ok |-> GetItem(a, k - 1).ok, val |-> GetItem(a, k - 1).val]]

NoPre == [valid |-> FALSE, len |-> 0, data |-> <<>>, gets |-> <<>>]

AOp(name, arg, q, was, ok, val) ==
    [name |-> name, arg |-> arg, q |-> q, was |-> was, ok |-> ok, val |-> val]

AGet(key) ==
    /\ key <= Len(ad.mailbox)
    /\ ad' = GetItem(ad, key).a
    /\ aop' = AOp("get", key, <<>>, ad.filtered,
                  GetItem(ad, key).ok, GetItem(ad, key).val)
    /\ pre' = IF ad.filtered THEN pre ELSE NoPre
    /\ UNCHANGED nonAdapter

AFilter(q) ==
    /\ ad' = FilterBy(ad, q)
    /\ aop' = AOp("filter", 0, q, ad.filtered,
                  ad.filtered \/ FilterRows(ad.mailbox, q).ok, NoRow)
    /\ pre' = IF ad.filtered THEN pre
              ELSE [valid |-> TRUE, len |-> Length(ad), data |-> ad.data,
                    gets |-> Answers(ad)]
    /\ UNCHANGED nonAdapter

AUnfilter ==
    /\ ad' = Unfilter(ad)
    /\ aop' = AOp("unfilter", 0, <<>>, ad.filtered, TRUE, NoRow)
    /\ pre' = IF ad.filtered THEN pre ELSE NoPre
    /\ UNCHANGED nonAdapter

InitAdapter ==
    /\ ad \in {NewMailboxAdapter(mb) : mb \in Mailboxes}
    /\ aop = AOp("init", 0, <<>>, FALSE, TRUE, NoRow)
    /\ pre = NoPre

AdapterNext ==
    \/ \E key \in (-1)..(InitFetch + MaxExtra) : AGet(key)
    \/ \E q \in Queries : AFilter(q)
    \/ AUnfilter

-----------------------------------------------------------------------------
(* Inbox list: the ListView of InboxActivity over its MailboxAdapter *)

\* str(n)
RECURSIVE Digits(_)
Digits(n) ==
    IF n < 10 THEN <<ToString(n)>>
    ELSE Digits(n \div 10) \o <<ToString(n % 10)>>

\* The line __headerline joins from its fields: the number right-justified
\* in two columns, the attachment mark, the date (one symbol), the sender
\* column and the subject.
RowText(r) ==
    (IF r.num < 10 THEN <<" ">> ELSE <<>>) \o Digits(r.num)
        \o <<" ", IF r.att THEN "a" ELSE " ", " ", "day" \o ToString(r.date),
             " ">>
        \o r.from \o <<" ">> \o r.subject

\* The lines iter(adapter) yields.
Lines(a) == [k \in 1..Len(Iter(a)) |-> RowText(Iter(a)[k])]

\* ListView.draw reads adapter[y] for y in range(top, bottom), which makes
\* an unfiltered adapter fetch; IndexError ends the loop.
RECURSIVE DrawRows(_, _, _)
DrawRows(a, y, bottom) ==
    IF y >= bottom THEN a
    ELSE IF ~GetItem(a, y).ok THEN GetItem(a, y).a
    ELSE DrawRows(GetItem(a, y).a, y + 1, bottom)

Draw(v, a) == DrawRows(a, v.top, v.bottom)

\* The messages of the model are plain text, addressed to one recipient; a
\* multipart message carries one attachment after its body part.
Recipient == <<"m", "e">>
NoMsg == Msg(<<>>, <<>>, <<>>, 0, FALSE)
GetAttachments(m) ==
    IF m.multipart
    THEN <<[of |-> m, filename |-> <<"f">>, type |-> <<"t">>]>>
    ELSE <<>>
NoAttachment == [of |-> NoMsg, filename |-> <<>>, type |-> <<>>]

\* MessageAdapter.__init__: the rows are the four header lines, one line for
\* each attachment, a line holding a newline and the lines of the body.
HeaderRows(m) ==
    << <<"D", "a", "t", "e", ":", " ", "day" \o ToString(m.date)>>,
       <<"T", "o", ":", " ">> \o Strip(Recipient),
       <<"F", "r", "o", "m", ":", " ">> \o Strip(m.from),
       <<"S", "u", "b", "j", "e", "c", "t", ":", " ">> \o Strip(m.subject) >>
AttachmentRows(m) ==
    [i \in 1..Len(GetAttachments(m)) |->
        <<"A", "t", "t", "a", "c", "h", "m", "e", "n", "t", " ">>
            \o Digits(i) \o <<":", " ">> \o GetAttachments(m)[i].filename
            \o <<" ", "<">> \o GetAttachments(m)[i].type \o <<">">>]
MessageRows(m) ==
    HeaderRows(m) \o AttachmentRows(m) \o << <<"\n">>, m.body >>

\* ... and each attachment is stored under its row in _attachment, which is
\* an attribute of the class: the entries of earlier messages stay.
StoreAttachments(att, m) ==
    LET first == Len(HeaderRows(m))
        new == {first + i - 1 : i \in 1..Len(GetAttachments(m))}
    IN  [r \in (DOMAIN att) \cup new |->
            IF r \in new THEN GetAttachments(m)[r - first + 1] ELSE att[r]]

\* MessageAdapter.get_attachment(lineno): KeyError gives the fail object.
GetAttachment(att, lineno) ==
    IF lineno \in DOMAIN att THEN att[lineno] ELSE NoAttachment

\* The screen above the inbox.  While the inbox is on top there is none.
NoChild == [lv |-> NewListView(0), data |-> <<>>, message |-> NoMsg]

\* MessageActivity.onCreate on a window that leaves the list maxy rows.
MessageScreen(m, maxy) ==
    [lv |-> SetAdapter(NewListView(maxy), Len(MessageRows(m))),
     data |-> MessageRows(m),
     message |-> m]

\* mailreader.mbpaths and thunder.get_profiles(), in the order listed.
MbPathList(p) ==
    IF p = "default" THEN <<"d/INBOX", "d/Sent">> ELSE <<"w/INBOX">>
ProfileList == <<"default", "work">>

\* MailboxListActivity.onCreate and ProfileListActivity.onCreate started by
\* the inbox a: a list of the mailbox paths or of the profile names, with
\* the cursor put on the current one (only pos is assigned).
ListScreen(kind, a, maxy) ==
    LET data == IF kind = "MailboxListActivity"
                THEN MbPathList(a.profile) ELSE ProfileList
        cur == IF kind = "MailboxListActivity" THEN a.mbpath ELSE a.profile
        found == {i \in 1..Len(data) : data[i] = cur}
        v == SetAdapter(NewListView(maxy), Len(data))
    IN  [lv |-> IF found = {} THEN v ELSE [v EXCEPT !.pos = Min(found) - 1],
         data |-> data,
         message |-> NoMsg]

NoPos == [some |-> FALSE, pos |-> 0]

\* The parts of the inbox a specification does not exercise.
IdleInbox ==
    /\ listviewpos = NoPos
    /\ child = NoChild
    /\ attachment = <<>>

\* The mailboxes, search texts and highlight patterns the inbox list is
\* exercised with.
InboxMailboxes ==
    {<<>>, <<MsgA>>, <<MsgA, MsgB>>, <<MsgB, MsgA, MsgMixed>>,
     <<MsgA, MsgB, MsgA, MsgB>>}
InboxQueries == {<<"B">>, <<"A">>, <<"f", " ", "c">>, <<>>, <<"d", " ", "b">>}
InboxPatterns == {<<"A">>, <<"1">>, <<"z">>}

\* Application.__init__(screen, 'InboxActivity'): the inbox is started, as
\* the first activity, before the event loop reads a key.
StartedInbox ==
    LET A0 == [i \in Ids |-> IF i = 1 THEN NewActivity("InboxActivity")
                             ELSE NoActivity]
        R == PushRun(A0, <<>>, 1, NoBundle)
    IN  /\ stack = <<1>>
        /\ act = R.A
        /\ nAlloc = 1
        /\ status = "running"
        /\ calls = R.log
        /\ op = [name |-> "push", arg |-> 1, hit |-> TRUE, b |-> NoBundle]
        /\ ret = "None"

AnyScreenOnTop == stack # <<>>

\* The event loop hands keys to the inbox while it is the top of the stack.
InboxOnTop == stack # <<>> /\ act[Top].kind = "InboxActivity"

\* A key the list claims (InboxActivity.onKey offers it to the views and
\* redraws).
IKey(name, v) ==
    /\ status = "running"
    /\ InboxOnTop
    /\ lv' = v
    /\ ad' = Draw(v, ad)
    /\ vop' = VOp(name, 0)
    /\ aop' = AOp("draw", 0, <<>>, ad.filtered, TRUE, NoRow)
    /\ UNCHANGED <<src, pre, listviewpos, svars, cvars>>

IUp == IKey("up", KeyUp(lv))
IDown == IKey("down", KeyDown(lv, Length(ad)))
IPPage == IKey("ppage", KeyPPage(lv))
INPage == IKey("npage", KeyNPage(lv, Length(ad)))
INext == lv.highlight /\ IKey("next", KeyNext(lv, Length(ad)))
IPrev == lv.highlight /\ IKey("prev", KeyPrev(lv, Length(ad)))

\* InboxActivity.onKey, '/': with a filter active the key only flashes.
\* Otherwise the cursor is saved, the adapter is filtered by the text typed
\* (q) and, when that left it filtered, the list moves to row 0 and the
\* screen is redrawn.  An exception of filterby leaves onKey: IndexError
\* ends the event loop, any other aborts the application.
ISearch(q) ==
    /\ status = "running"
    /\ InboxOnTop
    /\ vop' = [name |-> "search", arg |-> 0, pat |-> q]
    /\ aop' = AOp("filter", 0, q, ad.filtered,
                  ad.filtered \/ FilterRows(ad.mailbox, q).ok, NoRow)
    /\ IF ad.filtered
       THEN UNCHANGED <<lv, ad, listviewpos, status>>
       ELSE /\ listviewpos' = [some |-> TRUE, pos |-> lv.pos]
            /\ IF FilterRows(ad.mailbox, q).ok
               THEN /\ ad' = FilterBy(ad, q)
                    /\ lv' = Move(lv, 0, Length(ad'))
                    /\ status' = "running"
               ELSE /\ UNCHANGED <<ad, lv>>
                    /\ status' = IF Split(LowerStr(q)) = <<>>
                                 THEN "stopped" ELSE "aborted"
    /\ UNCHANGED <<src, pre, stack, act, nAlloc, calls, op, ret, cvars>>

\* InboxActivity.onKey, 'u': unfilter, go back to the saved cursor (once)
\* and redraw.
IUndo ==
    /\ status = "running"
    /\ InboxOnTop
    /\ LET a == Unfilter(ad)
           v == IF listviewpos.some
                THEN Move(lv, listviewpos.pos, Length(a))
                ELSE lv
       IN  /\ lv' = v
           /\ ad' = Draw(v, a)
    /\ listviewpos' = NoPos
    /\ vop' = VOp("undo", 0)
    /\ aop' = AOp("unfilter", 0, <<>>, ad.filtered, TRUE, NoRow)
    /\ UNCHANGED <<src, pre, svars, cvars>>

\* ListView.highlighttext(pat) on the inbox list; it redraws when it found
\* something.
IHighlight(pat) ==
    /\ status = "running"
    /\ InboxOnTop
    /\ lv' = HighlightText(lv, pat, Lines(ad), Length(ad))
    /\ ad' = IF HighlightCount(pat, Lines(ad)) > 0 THEN Draw(lv', ad) ELSE ad
    /\ vop' = [name |-> "highlight",
               arg |-> HighlightCount(pat, Lines(ad)), pat |-> pat]
    /\ aop' = AOp("draw", 0, <<>>, ad.filtered, TRUE, NoRow)
    /\ UNCHANGED <<src, pre, listviewpos, svars, cvars>>

\* InboxActivity.onCreate: a new ListView bound to a new MailboxAdapter.
InitInbox ==
    /\ \E mb \in InboxMailboxes, h \in 1..MaxHeight :
          /\ ad = NewMailboxAdapter(mb)
          /\ lv = SetAdapter(NewListView(h), Len(mb))
    /\ src = NoAdapter
    /\ vop = VOp("init", 0)
    /\ aop = AOp("init", 0, <<>>, FALSE, TRUE, NoRow)
    /\ pre = NoPre
    /\ IdleInbox

\* The mbox files on disk.
MailboxAt(path) ==
    CASE path = "d/INBOX" -> <<MsgA, MsgB, MsgA, MsgB>>
      [] path = "d/Sent" -> <<MsgB, MsgC, MsgB>>
      [] path = "w/INBOX" -> <<MsgC>>

\* self._startActivity(kind(), b) called by the inbox with a bundle the new
\* screen accepts; c is the screen as its onCreate builds it.
IStart(kind, b, c) ==
    LET id == nAlloc + 1
        A0 == [act EXCEPT ![id] = NewActivity(kind)]
        R == PushRun(A0, stack, id, b)
    IN  /\ Len(stack) < MaxDepth
        /\ nAlloc < MaxInst
        /\ nAlloc' = id
        /\ stack' = Append(stack, id)
        /\ act' = R.A
        /\ calls' = R.log
        /\ op' = [name |-> "push", arg |-> id, hit |-> TRUE, b |-> b]
        /\ ret' = "None"
        /\ status' = "running"
        /\ child' = c

\* InboxActivity.onKey, Enter: start a message screen on
\* self.mailreader[self._listview.pos]; the mailbox raises KeyError for a
\* position it does not hold.
IEnter ==
    /\ status = "running"
    /\ InboxOnTop
    /\ vop' = VOp("enter", lv.pos)
    /\ IF 0 <= lv.pos /\ lv.pos < Len(ad.mailbox)
       THEN LET m == ad.mailbox[lv.pos + 1]
            IN  /\ IStart("MessageActivity",
                          [key |-> "message", val |-> "Message"],
                          MessageScreen(m, lv.maxy))
                /\ attachment' = StoreAttachments(attachment, m)
       ELSE /\ op' = [name |-> "key", arg |-> Top, hit |-> FALSE,
                      b |-> NoBundle]
            /\ ret' = "KeyError"
            /\ status' = "aborted"
            /\ calls' = <<>>
            /\ UNCHANGED <<stack, act, nAlloc, cvars>>
    /\ UNCHANGED <<lv, ad, src, aop, pre, listviewpos>>

\* InboxActivity.onKey, m / M and p / P: start the mailbox list or the
\* profile list with the inbox's mail reader.  The list claims p and P
\* itself while it is highlighting.
IOpenList(kind) ==
    /\ InboxOnTop
    /\ status = "running"
    /\ kind = "ProfileListActivity" => ~lv.highlight
    /\ IStart(kind, [key |-> "mailreader", val |-> "ThunderReader"],
              ListScreen(kind, act[Top], lv.maxy))
    /\ UNCHANGED <<vvars, avars, ivars, attachment>>

\* _destroyActivity popping the top of the activities A0, seen from the
\* inbox beneath: _resumeActivity calls its onResume, which builds a new
\* ListView and MailboxAdapter when it runs onCreate again, and then draws
\* it.
IPop(name, A0) ==
    LET R == PopRun(A0, stack)
        rest == Front(stack)
        below == rest[Len(rest)]
        rebuilt == /\ rest # <<>>
                   /\ ResumeRecreates(A0[below], DestroyResult(A0[Top]))
        mb == MailboxAt(R.A[below].mbpath)
        v == IF rebuilt THEN SetAdapter(NewListView(lv.maxy), Len(mb)) ELSE lv
        a == IF rebuilt THEN NewMailboxAdapter(mb) ELSE ad
    IN  /\ stack' = rest
        /\ act' = R.A
        /\ calls' = R.log
        /\ op' = [name |-> name, arg |-> Top, hit |-> TRUE, b |-> NoBundle]
        /\ lv' = v
        /\ ad' = IF rest # <<>> THEN Draw(v, a) ELSE a
        /\ child' = NoChild
        /\ UNCHANGED <<nAlloc, src, vop, aop, pre, listviewpos, attachment>>

\* The quit key in the running application.
IQuit ==
    /\ status = "running"
    /\ stack # <<>>
    /\ IPop("quit", act)
    /\ ret' = PopResult(Front(stack))
    /\ status' = IF Front(stack) = <<>> THEN "stopped" ELSE "running"

\* Enter on the mailbox list or the profile list above the inbox: the row
\* under its cursor (sel), one of the current profile's mailboxes or one of
\* the profiles, goes into the private bundle and the screen finishes.
IFinish(sel) ==
    /\ status = "running"
    /\ Len(stack) > 1
    /\ act[Top].kind \in ListKinds
    /\ LET key == IF act[Top].kind = "MailboxListActivity"
                  THEN "mailbox_path" ELSE "profilename"
       IN  /\ sel \in (IF key = "mailbox_path"
                        THEN MbPaths(act[stack[1]].profile)
                        ELSE ProfileNames)
           /\ IPop("finish",
                   [act EXCEPT ![Top].priv = [key |-> key, val |-> sel]])
    /\ ret' = "None"
    /\ status' = "running"

\* The event loop hands keys to the screen above the inbox while that is
\* the top of the stack.
ChildOnTop == Len(stack) > 1 /\ act[Top].kind # "InboxActivity"

CKeyFallsThrough(v) ==
    /\ status = "running"
    /\ ChildOnTop
    /\ child' = [child EXCEPT !.lv = v]
    /\ vop' = VOp("child key", 0)
    /\ status' = IF UnhandledKey(act[Top].kind) = "False"
                 THEN "running" ELSE "aborted"
    /\ UNCHANGED <<lv, src, avars, ivars, attachment, stack, act, nAlloc,
                   calls, op, ret>>

\* A key the list of that screen claims (its onKey offers the key to the
\* views and redraws).
CKey(v) ==
    /\ status = "running"
    /\ ChildOnTop
    /\ child' = [child EXCEPT !.lv = v]
    /\ vop' = VOp("child key", 0)
    /\ UNCHANGED <<lv, src, avars, ivars, attachment, svars>>

CUp == CKey(KeyUp(child.lv))
CDown == CKey(KeyDown(child.lv, Len(child.data)))
CPPage == CKey(KeyPPage(child.lv))
CNPage == CKey(KeyNPage(child.lv, Len(child.data)))
CLeft == CKey(KeyLeft(child.lv))
CRight == child.lv.x < MaxX /\ CKey(KeyRight(child.lv))
CNext == child.lv.highlight /\ CKey(KeyNext(child.lv, Len(child.data)))
CPrev == child.lv.highlight /\ CKey(KeyPrev(child.lv, Len(child.data)))

\* MessageActivity.onKey, '/': the text typed (pat) goes to highlighttext;
\* the screen is redrawn when something was found, else the footer shows
\* 'Pattern not found'.
MSearch(pat) ==
    /\ status = "running"
    /\ ChildOnTop
    /\ act[Top].kind = "MessageActivity"
    /\ child' = [child EXCEPT !.lv = HighlightText(@, pat, child.data,
                                                   Len(child.data))]
    /\ vop' = [name |-> "child search",
               arg |-> HighlightCount(pat, child.data), pat |-> pat]
    /\ UNCHANGED <<lv, src, avars, ivars, attachment, svars>>

\* MessageActivity.onKey, Enter / a / A: get_attachment(pos); with none
\* under the cursor the key does nothing more, else the attachment is
\* written to the file the user names (the file is outside this model).
MAttach ==
    /\ status = "running"
    /\ ChildOnTop
    /\ act[Top].kind = "MessageActivity"
    /\ vop' = [name |-> "attach", arg |-> child.lv.pos, pat |-> <<>>,
               got |-> GetAttachment(attachment, child.lv.pos)]
    /\ UNCHANGED <<lv, src, avars, ivars, cvars, svars>>

CEnterFirstRow ==
    /\ ChildOnTop
    /\ act[Top].kind \in ListKinds
    /\ PyIndex(child.data, 0).ok
    /\ IFinish(PyIndex(child.data, 0).val)

\* Enter on the mailbox list or the profile list: the bundle takes
\* self._listview.adapter[self._listview.pos].  The lists of the model are
\* never empty, so the index is always good.
CEnter ==
    /\ ChildOnTop
    /\ act[Top].kind \in ListKinds
    /\ PyIndex(child.data, child.lv.pos).ok
    /\ IFinish(PyIndex(child.data, child.lv.pos).val)

\* The patterns searched for in a message: one that occurs in some rows
\* and one that occurs in none.
MessagePatterns == {<<"A">>, <<"z">>}

\* The screens: the inbox reduced to what selects a message, and every key
\* of the screens it starts.
ScreensNext ==
    \/ IDown
    \/ IEnter
    \/ \E kind \in ListKinds : IOpenList(kind)
    \/ IQuit
    \/ CUp
    \/ CDown
    \/ CPPage
    \/ CNPage
    \/ CLeft
    \/ CRight
    \/ CNext
    \/ CPrev
    \/ \E pat \in MessagePatterns : MSearch(pat)
    \/ MAttach
    \/ CEnter

\* The search texts the application is exercised with: one that matches, one
\* that matches nothing and the empty one.
AppQueries == {<<"B">>, <<"f", " ", "c">>, <<>>}

\* The application: the inbox over the mailbox of the default profile, on
\* a terminal that leaves the list one row or MaxHeight rows.
InitApp ==
    /\ \E h \in {1, MaxHeight} :
          LET mb == MailboxAt(InboxPath("default"))
              v == SetAdapter(NewListView(h), Len(mb))
          IN  /\ lv = v
              /\ ad = Draw(v, NewMailboxAdapter(mb))
    /\ src = NoAdapter
    /\ vop = VOp("init", 0)
    /\ aop = AOp("init", 0, <<>>, FALSE, TRUE, NoRow)
    /\ pre = NoPre
    /\ IdleInbox

AppNext ==
    \/ IUp
    \/ IDown
    \/ IPPage
    \/ INPage
    \/ \E q \in AppQueries : ISearch(q)
    \/ IUndo
    \/ IEnter
    \/ \E kind \in ListKinds : IOpenList(kind)
    \/ IQuit
    \/ \E sel \in AllPaths \cup ProfileNames : IFinish(sel)
    \/ OnKeyUnhandled

\* The started inbox over a mailbox longer than the rows fetched at
\* construction.
InitLazy ==
    /\ StartedInbox
    /\ \E h \in {1, MaxHeight} :
          LET mb == LongMailbox(InitFetch + 1)
              v == SetAdapter(NewListView(h), Len(mb))
          IN  /\ lv = v
              /\ ad = Draw(v, NewMailboxAdapter(mb))
    /\ src = NoAdapter
    /\ vop = VOp("init", 0)
    /\ aop = AOp("init", 0, <<>>, FALSE, TRUE, NoRow)
    /\ pre = NoPre
    /\ IdleInbox

LazyNext ==
    \/ INPage
    \/ INext
    \/ ISearch(<<"B">>)
    \/ IUndo
    \/ \E pat \in {<<"A">>, <<"z">>} : IHighlight(pat)

InboxNext ==
    \/ IUp
    \/ IDown
    \/ IPPage
    \/ INPage
    \/ INext
    \/ IPrev
    \/ \E q \in InboxQueries : ISearch(q)
    \/ IUndo
    \/ \E pat \in InboxPatterns : IHighlight(pat)

-----------------------------------------------------------------------------
(* Specifications *)

\* The components a specification does not exercise stay as constructed.
IdleView ==
    /\ lv = NewListView(1)
    /\ src = NoAdapter
    /\ vop = VOp("init", 0)
IdleAdapter ==
    /\ ad = NewMailboxAdapter(<<>>)
    /\ aop = AOp("init", 0, <<>>, FALSE, TRUE, NoRow)
    /\ pre = NoPre

Init == InitStack /\ IdleView /\ IdleAdapter /\ IdleInbox

Next == StackNext

Spec == Init /\ [][Next]_vars

InitV == InitStack /\ InitView /\ IdleAdapter /\ IdleInbox

SpecView == InitV /\ [][ViewNext]_vars

SpecRebind == InitV /\ [][RebindNext]_vars

InitA == InitStack /\ IdleView /\ InitAdapter /\ IdleInbox

SpecAdapter == InitA /\ [][AdapterNext]_vars

InitI == StartedInbox /\ InitInbox

SpecInbox == InitI /\ [][InboxNext]_vars

InitP == StartedInbox /\ InitApp

SpecApp == InitP /\ [][AppNext]_vars

SpecLazy == InitLazy /\ [][LazyNext]_vars

SpecScreens == InitP /\ [][ScreensNext]_vars

-----------------------------------------------------------------------------
(* Properties of the list source *)

\* Does pat occur in line, letter for letter?
Occurs(pat, line) ==
    \E k \in 0..Len(line) :
        /\ k + Len(pat) <= Len(line)
        /\ \A j \in 1..Len(pat) : line[k + j] = pat[j]

\* C4: on an unfiltered source, get(i) for 0 <= i < logical length succeeds
\* and returns the row of item i, whatever has been materialized so far.
C4_GetValidIndex ==
    (aop.name = "get" /\ ~aop.was /\ 0 <= aop.arg
        /\ aop.arg < Len(ad.mailbox)) =>
        /\ aop.ok
        /\ aop.val = HeaderLine(ad.mailbox[aop.arg + 1], aop.arg)

\* C5: filter(query) followed by unfilter() restores length(), the answer of
\* every get(i) and the materialized rows to what they were before the
\* filter, for every query.
C5_FilterUnfilterRoundTrip ==
    (aop.name = "unfilter" /\ pre.valid) =>
        /\ ~IsFiltered(ad)
        /\ Length(ad) = pre.len
        /\ ad.data = pre.data
        /\ Answers(ad) = pre.gets

C5_Witness ==
    /\ aop.name = "unfilter" /\ aop.was /\ pre.valid
    /\ Len(ad.mailbox) > InitFetch + FetchBatch
    /\ Len(ad.data) = InitFetch + FetchBatch
    /\ \E k \in 1..Len(pre.gets) : ~pre.gets[k].ok

\* The rows of the messages that contain pat in their sender, subject or
\* body, letter case ignored when fold is TRUE.
Fold(t, fold) == IF fold THEN LowerStr(t) ELSE t
HasText(m, pat, fold) ==
    \E field \in {m.from, m.subject, m.body} :
        \E k \in 0..Len(field) :
            /\ k + Len(pat) <= Len(field)
            /\ \A j \in 1..Len(pat) :
                  Fold(field, fold)[k + j] = Fold(pat, fold)[j]
Matching(mb, pat, fold) ==
    RowsAt(mb, {n \in 1..Len(mb) : HasText(mb[n], pat, fold)})

\* C6 (as stated): a plain-substring filter matches case-insensitively:
\* filter("b") over items with the texts A, B and C yields exactly the row
\* of B.
C6_PlainFilterIgnoresCase ==
    (aop.name = "filter" /\ ~aop.was /\ IsPlain(aop.q)) =>
        /\ IsFiltered(ad)
        /\ ad.fdata = Matching(ad.mailbox, aop.q, TRUE)

\* C6 (amended): a plain-substring filter matches the query exactly as
\* typed, case-sensitively: the filtered rows are those of the items whose
\* sender, subject or body contains it, so over A, B and C filter("B")
\* yields exactly the row of B and filter("b") yields nothing.
C6_PlainFilterExactCase ==
    (aop.name = "filter" /\ ~aop.was /\ IsPlain(aop.q)) =>
        /\ IsFiltered(ad)
        /\ ad.fdata = Matching(ad.mailbox, aop.q, FALSE)
        /\ Length(ad) = Len(ad.fdata)
        /\ (ad.mailbox = <<MsgA, MsgB, MsgC>> /\ aop.q = <<"B">>) =>
              (ad.fdata = <<HeaderLine(MsgB, 1)>> /\ Length(ad) = 1)
        /\ (ad.mailbox = <<MsgA, MsgB, MsgC>> /\ aop.q = <<"b">>) =>
              Length(ad) = 0

C6_Witness ==
    /\ aop.name = "filter" /\ ~aop.was
    /\ aop.q = <<"B">>
    /\ ad.mailbox = <<MsgA, MsgB, MsgC>>
    /\ ad.fdata = <<HeaderLine(MsgB, 1)>>
    /\ Length(ad) = 1

\* The field prefix of a query ("from", "subject", "date" or "none") and the
\* text after it, as filterby splits them.
QueryWords(q) == Split(LowerStr(q))
QueryField(q) ==
    IF Len(QueryWords(q)) < 2 THEN "none"
    ELSE CASE QueryWords(q)[1] \in {<<"f">>, <<"f", "r", "o", "m">>} -> "from"
           [] QueryWords(q)[1] \in {<<"s">>, <<"s", "u", "b", "j", "e", "c", "t">>}
                -> "subject"
           [] QueryWords(q)[1] \in {<<"d">>, <<"d", "a", "t", "e">>} -> "date"
           [] OTHER -> "none"

\* C18: a substring filter (plain, from or subject) scans the entire
\* collection, not only the materialized rows: the filtered rows are, in
\* collection order, one row for every matching item of the whole
\* collection, and no filter changes the materialized rows.
C18_FilterScansWholeCollection ==
    [][(aop'.name = "filter" /\ ~ad.filtered /\ aop'.ok) =>
          LET mb == ad.mailbox
              q == aop'.q
              rest == Join(Tail(QueryWords(q)))
              hits ==
                  CASE QueryField(q) = "none" ->
                         {n \in 1..Len(mb) : HasText(mb[n], q, FALSE)}
                    [] QueryField(q) = "from" ->
                         {n \in 1..Len(mb) : Occurs(rest, mb[n].from)}
                    [] QueryField(q) = "subject" ->
                         {n \in 1..Len(mb) : Occurs(rest, mb[n].subject)}
                    [] OTHER -> {}
          IN  /\ ad'.data = ad.data
              /\ ad'.mailbox = mb
              /\ QueryField(q) # "date" =>
                    /\ Len(ad'.fdata) = Cardinality(hits)
                    /\ \A k \in 1..Len(ad'.fdata) :
                          /\ ad'.fdata[k].num \in hits
                          /\ ad'.fdata[k] =
                                HeaderLine(mb[ad'.fdata[k].num],
                                           ad'.fdata[k].num - 1)
                          /\ k > 1 => ad'.fdata[k - 1].num < ad'.fdata[k].num
             ]_vars

C18_Witness ==
    /\ aop.name = "filter" /\ ~aop.was
    /\ aop.q = <<"B">>
    /\ Len(ad.mailbox) = InitFetch + MaxExtra
    /\ Len(ad.data) = InitFetch
    /\ Len(ad.fdata) = (InitFetch + MaxExtra) \div 2
    /\ ad.fdata[Len(ad.fdata)].num > InitFetch + FetchBatch

\* The bounds of a date query: its tokens in either order, or the single
\* token and today.
DateBounds(q) ==
    LET w == QueryWords(q)
        d1 == ParseDate(w[2])
        d2 == IF Len(w) > 2 THEN ParseDate(w[3]) ELSE Today
    IN  [lo |-> IF d1 < d2 THEN d1 ELSE d2, hi |-> IF d1 < d2 THEN d2 ELSE d1]

\* Are the dated messages of mb stored newest first?
Descending(mb) ==
    \A i, j \in 1..Len(mb) :
        (i < j /\ mb[i].date # 0 /\ mb[j].date # 0) => mb[i].date >= mb[j].date

\* C19: over a collection stored in descending date order, a date filter
\* with two dd/mm/yyyy tokens, in either order, selects exactly the messages
\* whose date lies in the inclusive range between the two dates.
C19_DateRangeInclusive ==
    (aop.name = "filter" /\ ~aop.was /\ aop.ok
        /\ QueryField(aop.q) = "date" /\ Len(QueryWords(aop.q)) > 2
        /\ Descending(ad.mailbox)) =>
        LET mb == ad.mailbox
            b == DateBounds(aop.q)
        IN  /\ ad.filtered
            /\ ad.fdata = RowsAt(mb, {n \in 1..Len(mb) :
                                        /\ mb[n].date # 0
                                        /\ b.lo <= mb[n].date
                                        /\ mb[n].date <= b.hi})

C19_Witness ==
    /\ aop.name = "filter" /\ ~aop.was /\ aop.ok
    /\ aop.q = <<"d", " ", "D1", " ", "D2">>
    /\ ad.mailbox = <<MsgA, MsgB, MsgC>>
    /\ ad.fdata = <<HeaderLine(MsgB, 1), HeaderLine(MsgC, 2)>>

\* C20: a date filter stops at the first message, in collection order,
\* whose date is older than the lower bound: nothing stored after it
\* appears in the result, even when its date is in range; messages newer
\* than the upper bound or with an unparseable date are skipped and the
\* scan goes on.
C20_DateScanStopsEarly ==
    (aop.name = "filter" /\ ~aop.was /\ aop.ok
        /\ QueryField(aop.q) = "date") =>
        LET mb == ad.mailbox
            b == DateBounds(aop.q)
            older == {n \in 1..Len(mb) :
                         mb[n].date # 0 /\ mb[n].date < b.lo}
            stop == IF older = {} THEN Len(mb) + 1 ELSE Min(older)
        IN  /\ \A k \in 1..Len(ad.fdata) : ad.fdata[k].num < stop
            /\ ad.fdata = RowsAt(mb, {n \in 1..(stop - 1) :
                                        /\ mb[n].date # 0
                                        /\ b.lo <= mb[n].date
                                        /\ mb[n].date <= b.hi})

C20_Witness ==
    /\ aop.name = "filter" /\ ~aop.was /\ aop.ok
    /\ aop.q = <<"d", " ", "D2">>
    /\ ad.mailbox = <<MsgB, MsgC, MsgB>>
    /\ ad.fdata = <<HeaderLine(MsgB, 0)>>

\* C21: while a filter is active, length() is the length of the filtered
\* sequence, get(index) returns the index-th filtered row for
\* 0 <= index < that length and fails with IndexError for index >= that
\* length, and get never fetches: the adapter, its materialized rows
\* included, is unchanged by a get performed while filtered.
C21_FilteredGetNoFetch ==
    [][(aop'.name = "get" /\ ad.filtered) =>
          LET key == aop'.arg
          IN  /\ Length(ad) = Len(ad.fdata)
              /\ (0 <= key /\ key < Len(ad.fdata)) =>
                    (aop'.ok /\ aop'.val = ad.fdata[key + 1])
              /\ key >= Len(ad.fdata) => ~aop'.ok
              /\ ad'.data = ad.data
              /\ ad' = ad]_vars

C21_Witness ==
    /\ aop.name = "get" /\ aop.was /\ ~aop.ok
    /\ ad.filtered /\ ad.fdata # <<>>
    /\ aop.arg >= Len(ad.fdata)
    /\ aop.arg < Len(ad.mailbox)
    /\ Len(ad.data) < Len(ad.mailbox)

\* C22: after any sequence of get, filter and unfilter on an adapter over a
\* fixed mailbox, the materialized rows are exactly the rows of the messages
\* 0..k-1 for some k <= len(mailbox); k never decreases, and a row once
\* materialized at index i stays at index i with the same value.
C22_MaterializedPrefix ==
    /\ [](/\ Len(ad.data) <= Len(ad.mailbox)
          /\ \A i \in 1..Len(ad.data) :
                ad.data[i] = HeaderLine(ad.mailbox[i], i - 1))
    /\ [][/\ ad'.mailbox = ad.mailbox
          /\ Len(ad'.data) >= Len(ad.data)
          /\ \A i \in 1..Len(ad.data) : ad'.data[i] = ad.data[i]]_vars

C22_Witness ==
    /\ aop.name = "get" /\ ~aop.was /\ aop.ok
    /\ Len(ad.mailbox) = InitFetch + MaxExtra
    /\ Len(ad.data) = Len(ad.mailbox)
    /\ aop.arg = Len(ad.mailbox) - 1

\* C17: filter(query) on a source that is already filtered is a no-op for
\* every query: it does not raise, and the filtered rows, length(), every
\* get(i) and the materialized rows are unchanged.
C17_FilterWhenFilteredNoOp ==
    [][(aop'.name = "filter" /\ ad.filtered) =>
          /\ aop'.ok
          /\ ad'.filtered
          /\ ad'.fdata = ad.fdata
          /\ ad'.data = ad.data
          /\ Length(ad') = Length(ad)
          /\ Answers(ad') = Answers(ad)]_vars

C17_Witness ==
    /\ aop.name = "filter" /\ aop.was
    /\ aop.q = <<"A">>
    /\ ad.mailbox = <<MsgA, MsgB>>
    /\ ad.filtered
    /\ ad.fdata = <<HeaderLine(MsgB, 1)>>

-----------------------------------------------------------------------------
(* Properties of the inbox list *)

\* C15 (as stated): applying a filter to, or removing a filter from, the
\* source of a list clears the list's highlight state unconditionally:
\* afterwards highlighting is inactive and no matches are recorded.
C15_FilterClearsHighlight ==
    (\/ vop.name = "search" /\ ~aop.was /\ ad.filtered
     \/ vop.name = "undo" /\ aop.was) =>
        /\ ~lv.highlight
        /\ DOMAIN lv.hlcoord = {}

\* C15 (amended): applying a filter to, or removing a filter from, the
\* source of a list leaves the list's highlight state as it was:
\* highlighting that was active stays active with the pattern and the
\* matches recorded before the change, highlighting that was inactive stays
\* inactive.
C15_FilterKeepsHighlight ==
    [][(\/ vop'.name = "search" /\ ~ad.filtered /\ ad'.filtered
        \/ vop'.name = "undo" /\ ad.filtered /\ ~ad'.filtered) =>
          /\ lv'.highlight = lv.highlight
          /\ lv'.hltext = lv.hltext
          /\ lv'.hlcoord = lv.hlcoord]_vars

C15_Witness ==
    /\ vop.name = "search" /\ ~aop.was
    /\ ad.filtered
    /\ lv.highlight
    /\ \E y \in DOMAIN lv.hlcoord : y >= Length(ad)

\* C25: filter state is never destroyed automatically: once a filter is
\* active on the inbox's adapter it stays active with the same filtered rows
\* across every key other than undo, including a message screen being
\* started above the inbox and closed again; it ends only by the undo key or
\* when the adapter itself is replaced, which happens when a list screen
\* finishes with a mailbox or profile other than the current one.
C25_FilterStaysUntilUndo ==
    [][ad.filtered =>
          LET inbox == act[stack[1]]
              b == calls'[3].b
              replaced ==
                  /\ stack' # stack /\ op'.name = "finish"
                  /\ \/ b.key = "mailbox_path" /\ b.val # inbox.mbpath
                     \/ b.key = "profilename" /\ b.val # inbox.profile
          IN  IF vop'.name = "undo" \/ replaced
              THEN ~ad'.filtered
              ELSE /\ ad'.filtered
                   /\ ad'.fdata = ad.fdata
                   /\ ad'.mailbox = ad.mailbox]_vars

C25_Witness ==
    /\ op.name = "quit" /\ Len(stack) = 1 /\ status = "running"
    /\ vop.name = "enter"
    /\ act[2].kind = "MessageActivity" /\ act[2].life = "Destroyed"
    /\ ad.filtered
    /\ ad.fdata = <<HeaderLine(MsgB, 1), HeaderLine(MsgB, 3)>>
    /\ lv.pos = 1

\* C30: highlight(pattern) records matches for every row index in
\* [0, length()) of the current source whose text contains pattern: on a
\* lazily populated, unfiltered source this includes rows that have not
\* been materialized yet, and on a filtered source exactly the filtered rows
\* are scanned.
C30_HighlightScansAllRows ==
    [][vop'.name = "highlight" =>
          LET text(y) == IF ad.filtered THEN RowText(ad.fdata[y + 1])
                         ELSE RowText(HeaderLine(ad.mailbox[y + 1], y))
              match == {y \in 0..(Length(ad) - 1) : Occurs(vop'.pat, text(y))}
          IN  /\ vop'.arg = Cardinality(match)
              /\ match # {} => (lv'.highlight /\ DOMAIN lv'.hlcoord = match)
      ]_vars

\* C24: the cursor always addresses a valid row of the current (filtered or
\* unfiltered) source: whenever the current source is non-empty,
\* 0 <= cursor < length() holds after every key of the list and after every
\* search and undo performed through the inbox screen.
C24_CursorOnValidRow ==
    Length(ad) > 0 => (0 <= lv.pos /\ lv.pos < Length(ad))

C24_Witness ==
    /\ vop.name = "undo" /\ aop.was
    /\ Length(ad) = 4
    /\ lv.pos = 3
    /\ lv.top > 0

-----------------------------------------------------------------------------
(* Properties of the scrollable list *)

\* C3: the viewport invariant 0 <= top <= cursor < bottom and
\* bottom - top <= height holds after every transition, for every source
\* length including 0, 1 and lengths below the viewport height.
C3_ViewportInvariant ==
    /\ 0 <= lv.top
    /\ lv.top <= lv.pos
    /\ lv.pos < lv.bottom
    /\ lv.bottom - lv.top <= lv.maxy

\* C23: for a list bound to a non-empty adapter, bottom <= len(adapter) holds
\* in every reachable state, including immediately after the adapter is
\* assigned and when the adapter has fewer rows than the list's height.
C23_BottomWithinSource ==
    (src.set /\ SrcLen > 0) => lv.bottom <= SrcLen

C28_PageMovesByHeight ==
    [][(vop'.name \in {"ppage", "npage"} /\ SrcLen > 0) =>
          LET n == SrcLen
              h == lv.maxy
          IN  /\ vop'.name = "ppage" =>
                    /\ lv'.pos = Max({lv.pos - h, 0})
                    /\ lv'.pos = lv'.top
              /\ vop'.name = "npage" =>
                    lv'.pos = Min({lv.pos + h, n - 1})
              /\ 0 <= lv'.top
              /\ lv'.bottom <= n]_vars

\* C29: for every valid row (0 <= row < length()), after _move(row) the
\* cursor equals row and the window contains it (top <= row < bottom); if
\* row was already inside [top, bottom) before the call, top and bottom are
\* unchanged.  This holds in particular for row = bottom, the first row
\* below the window.
C29_JumpIntoWindow ==
    [][(vop'.name = "move" /\ 0 <= vop'.arg /\ vop'.arg < SrcLen) =>
          LET row == vop'.arg
          IN  /\ lv'.pos = row
              /\ lv'.top <= row /\ row < lv'.bottom
              /\ (lv.top <= row /\ row < lv.bottom) =>
                    (lv'.top = lv.top /\ lv'.bottom = lv.bottom)]_vars

C14_PrevMatchBackward ==
    [][(vop'.name = "prev" /\ lv.highlight) =>
          LET before == {y \in DOMAIN lv.hlcoord : y < lv.pos}
          IN  /\ before # {} => lv'.pos = Max(before)
              /\ before = {} => lv'.pos = lv.pos]_vars

\* C16 (as stated): assigning a new adapter to a list that already has one
\* re-binds it and resets top to 0, the cursor to 0 and highlighting to
\* inactive, whatever the list's state was before.
C16_RebindResets ==
    vop.name = "rebind" =>
        /\ lv.end = SrcLen
        /\ lv.top = 0
        /\ lv.pos = 0
        /\ ~lv.highlight

\* C16 (amended): assigning a new adapter to a list that already has one
\* re-binds it and sets the end of the match scan to the new adapter's
\* length; top, bottom, the cursor and the highlight state keep the values
\* they had before the assignment.
C16_RebindKeepsState ==
    [][vop'.name = "rebind" =>
          /\ lv'.end = Len(src'.data)
          /\ lv'.top = lv.top /\ lv'.bottom = lv.bottom
          /\ lv'.pos = lv.pos
          /\ lv'.highlight = lv.highlight
          /\ lv'.hltext = lv.hltext /\ lv'.hlcoord = lv.hlcoord]_vars

C16_Witness ==
    /\ vop.name = "rebind"
    /\ SrcLen = 1
    /\ lv.end = 1
    /\ lv.pos = 3 /\ lv.top > 0
    /\ lv.highlight

\* C7: with highlighting active, nextMatch either leaves the list untouched
\* (exactly when no recorded match lies after the cursor) or moves the cursor
\* forward to the nearest recorded match after it: the cursor never goes
\* back, never lands on a non-matching row and never passes the last match.
C7_NextMatchForward ==
    [][(vop'.name = "next" /\ lv.highlight) =>
          LET M == DOMAIN lv.hlcoord
              after == {y \in M : y > lv.pos}
          IN  /\ lv'.highlight /\ lv'.hlcoord = lv.hlcoord
              /\ after = {} => lv' = lv
              /\ after # {} => lv'.pos = Min(after)
              /\ lv'.pos # lv.pos =>
                    /\ lv'.pos > lv.pos
                    /\ lv'.pos \in M
                    /\ lv'.pos <= Max(M)]_vars

C7_Witness ==
    /\ vop.name = "next"
    /\ lv.highlight
    /\ Cardinality(DOMAIN lv.hlcoord) >= 2
    /\ lv.pos = Max(DOMAIN lv.hlcoord)
    /\ lv.pos >= 2

-----------------------------------------------------------------------------
(* Properties of the activity stack *)

DriverCalls(log) == SelectSeq(log, LAMBDA c : ~c.nested)

\* The lifecycle Created -> Resumed <-> Paused -> Destroyed: is callback c
\* made in a state that allows it?
LegalCall(c) ==
    CASE c.cb = "onCreate" -> c.from = "New"
      [] c.cb = "onResume" -> c.from \in {"Created", "Paused"}
      [] c.cb = "onPause" -> c.from = "Resumed"
      [] c.cb = "onDestroy" -> c.from = "Paused"

\* C1: _destroyActivity(activity) on a non-empty stack, with an activity that
\* is not the current top, fails with ValueError reaching the caller and does
\* not return a success value.
C1_NonTopPopRaises ==
    (op.name = "popNamed" /\ ~op.hit /\ stack # <<>>) => ret = "ValueError"

\* C2: every unnamed pop of a non-empty stack removes exactly the top, and it
\* reports "stack exhausted" (False) exactly when it removed the last
\* screen; so N pushes followed by N pops report False once, on the N-th.
C2_PopsExhaustOnce ==
    [][(op'.name = "pop" /\ op'.hit) =>
          /\ stack # <<>>
          /\ stack' = Front(stack)
          /\ ret' \in {"True", "False"}
          /\ (ret' = "False") <=> (stack' = <<>>)]_vars

C2_Witness ==
    /\ op.name = "pop" /\ op.hit
    /\ ret = "False" /\ stack = <<>>
    /\ nAlloc = MaxInst
    /\ \A i \in 1..nAlloc : act[i].life = "Destroyed"

\* C8: while the application waits for a key with a non-empty stack, the top
\* is the only Resumed screen and every screen beneath it is Paused.
C8_OneResumed ==
    (status = "running" /\ stack # <<>>) =>
        /\ act[Top].life = "Resumed"
        /\ \A i \in 1..(Len(stack) - 1) : act[stack[i]].life = "Paused"
        /\ {i \in Ids : act[i].life = "Resumed"} = {Top}

C8_Witness ==
    /\ status = "running"
    /\ Len(stack) >= 2
    /\ op.name \in {"pop", "finish"}

\* C9 (as stated): every callback follows Created -> Resumed <-> Paused ->
\* Destroyed, onCreate runs exactly once per instance, and a destroyed
\* instance is off the stack.
C9_LifecycleStrict ==
    /\ \A k \in 1..Len(calls) : LegalCall(calls[k])
    /\ \A i \in Ids : act[i].creates <= 1
    /\ \A i \in Ids : act[i].life = "Destroyed" => i \notin OnStack

\* C9 (amended): the callbacks made by the stack driver follow Created ->
\* Resumed <-> Paused -> Destroyed, the driver creates each instance once, and
\* a destroyed instance is off the stack; the only other callback is the
\* onCreate an inbox runs again from inside its own onResume when the bundle
\* names a mailbox or profile other than the current one.
C9_LifecycleDriver ==
    /\ \A k \in 1..Len(calls) :
          IF calls[k].nested
          THEN /\ calls[k].cb = "onCreate"
               /\ act[calls[k].id].kind = "InboxActivity"
               /\ k > 1
               /\ calls[k-1].cb = "onResume" /\ ~calls[k-1].nested
               /\ calls[k-1].id = calls[k].id
               /\ calls[k-1].b.key \in {"mailbox_path", "profilename"}
          ELSE LegalCall(calls[k])
    /\ \A i \in Ids :
          /\ act[i].kind # "InboxActivity" => act[i].creates <= 1
          /\ (i \in OnStack /\ status = "running") => act[i].creates >= 1
          /\ act[i].life = "Destroyed" => i \notin OnStack
    /\ \A k \in 1..Len(calls) : calls[k].from # "Destroyed"

C9_Witness ==
    /\ \E k \in 1..Len(calls) : calls[k].nested
    /\ op.name = "finish"
    /\ act[Top].creates = 2

\* C11: a pop on a stack of depth >= 2 removes the top, calls the removed
\* screen's onPause and then its onDestroy, and then onResume of the screen
\* directly beneath with exactly the value that onDestroy returned; no other
\* screen on the stack receives a callback.
C11_PopResumesBeneath ==
    [][(op'.name \in {"pop", "popNamed", "finish"} /\ op'.hit
            /\ Len(stack) >= 2) =>
          LET d == DriverCalls(calls')
              old == Top
              beneath == stack[Len(stack) - 1]
          IN  /\ stack' = Front(stack)
              /\ op'.arg = old
              /\ Len(d) = 3
              /\ d[1].id = old /\ d[1].cb = "onPause"
              /\ d[2].id = old /\ d[2].cb = "onDestroy"
              /\ d[3].id = beneath /\ d[3].cb = "onResume"
              /\ d[3].b = d[2].b
              /\ act[old].kind \notin ListKinds => d[3].b = NoBundle
              /\ (act[old].kind \in ListKinds /\ op'.name # "finish") =>
                    d[3].b = act[old].priv
              /\ (act[old].kind = "MailboxListActivity"
                    /\ op'.name = "finish") => d[3].b.key = "mailbox_path"
              /\ (act[old].kind = "ProfileListActivity"
                    /\ op'.name = "finish") => d[3].b.key = "profilename"
              /\ \A k \in 1..Len(calls') : calls'[k].id \in {old, beneath}
              /\ \A i \in 1..(Len(stack) - 2) :
                    act'[stack[i]] = act[stack[i]]]_vars

C11_Witness ==
    /\ op.name = "finish" /\ op.hit
    /\ Len(stack) >= 2
    /\ Len(calls) >= 3
    /\ calls[2].cb = "onDestroy" /\ calls[2].b.key = "profilename"
    /\ calls[3].cb = "onResume" /\ calls[3].b = calls[2].b
    /\ act[calls[2].id].kind = "ProfileListActivity"

\* C12: on every kind of screen, a key that no view claims and the screen's
\* own handler does not recognise reaches the no-op default: no error is
\* raised, the stack and the screens are unchanged and the input loop
\* continues.
C12_UnhandledKeyNoOp ==
    [][op'.name = "key" =>
          /\ ret' = "False"
          /\ status' = "running"
          /\ stack' = stack
          /\ act' = act]_vars

\* C26: each quit key pops exactly one screen, the current top, and the input
\* loop ends precisely on the quit key that pops the bottom-most screen: a
\* quit key on a stack of depth d > 1 leaves depth d - 1 and the loop
\* running, a quit key on depth 1 ends the loop, so d consecutive quit keys
\* end the application and fewer never do; a key that is not the quit key
\* is dispatched to the top screen only.
C26_QuitPopsOne ==
    [][/\ (op'.name = "quit" /\ stack # <<>>) =>
             /\ stack' = Front(stack)
             /\ op'.arg = Top
             /\ \A k \in 1..Len(calls') :
                   calls'[k].cb \in {"onPause", "onDestroy"} => calls'[k].id = Top
             /\ status' = (IF Len(stack) = 1 THEN "stopped" ELSE "running")
             /\ ret' = (IF Len(stack) = 1 THEN "False" ELSE "True")
       /\ (op'.name \in {"key", "finish"} /\ stack # <<>>) =>
             /\ op'.arg = Top
             /\ \A i \in 1..(Len(stack) - 2) : act'[stack[i]] = act[stack[i]]
      ]_vars

C26_Witness ==
    /\ op.name = "quit" /\ op.hit
    /\ status = "stopped" /\ stack = <<>>
    /\ nAlloc = MaxInst
    /\ \A i \in 1..nAlloc : act[i].life = "Destroyed"

\* C10: a completed push pauses the previous top (when there is one) before
\* the new screen's onCreate, then calls the new screen's onCreate and
\* onResume with the bundle given; the new screen ends on top of the
\* unchanged stack.
C10_PushOrder ==
    [][(op'.name = "push" /\ status' = "running") =>
          LET d == DriverCalls(calls')
              n == Len(d)
              new == op'.arg
          IN  /\ new \notin OnStack
              /\ stack' = Append(stack, new)
              /\ n = (IF stack = <<>> THEN 2 ELSE 3)
              /\ d[n-1].id = new /\ d[n-1].cb = "onCreate"
              /\ d[n-1].b = op'.b
              /\ d[n].id = new /\ d[n].cb = "onResume"
              /\ d[n].b = op'.b
              /\ stack # <<>> => (d[1].id = Top /\ d[1].cb = "onPause")]_vars

C10_Witness ==
    /\ op.name = "push" /\ status = "running"
    /\ Len(stack) >= 2
    /\ op.b.key = "message"
    /\ Len(calls) = 3

\* C36: filter(query) on an unfiltered source completes without raising for
\* every query, the empty one and the blank ones included, and leaves the
\* source filtered (possibly with no rows).
C36_FilterNeverRaises ==
    [][(aop'.name = "filter" /\ ~ad.filtered) =>
          /\ aop'.ok
          /\ ad'.filtered]_vars

-----------------------------------------------------------------------------
(* The screens above the inbox *)

\* C31: a search in the message screen whose pattern matches no row
\* (highlighttext returns 0) does not navigate or change the viewport:
\* cursor, top, bottom, xOffset and the highlight state established before
\* (flag, pattern, recorded matches) are unchanged, and so are the stack, the
\* screens on it and the running loop.
C31_NotFoundChangesNothing ==
    [][(vop' # vop /\ vop'.name = "child search" /\ vop'.arg = 0) =>
          /\ child' = child
          /\ UNCHANGED <<stack, act, nAlloc, status, lv, ad, listviewpos,
                         attachment>>]_vars

C31_Witness ==
    /\ vop.name = "child search" /\ vop.arg = 0 /\ vop.pat = <<"z">>
    /\ status = "running"
    /\ Len(stack) = 2 /\ act[Top].kind = "MessageActivity"
    /\ child.lv.highlight
    /\ child.lv.hltext = <<"A">>
    /\ child.lv.pos > 0

\* C32: Enter on the mailbox list or the profile list finishes that screen:
\* it, and only it, leaves the stack, the inbox beneath is resumed with a
\* bundle whose key is mailbox_path or profilename and whose value is the
\* row under the finished screen's cursor, and the loop goes on running
\* (nothing reports False).
C32_FinishPopsSelfWithRow ==
    [][(op' # op /\ op'.name = "finish") =>
          LET key == IF act[Top].kind = "MailboxListActivity"
                     THEN "mailbox_path" ELSE "profilename"
              row == PyIndex(child.data, child.lv.pos)
              resumed == {i \in 1..Len(calls') : calls'[i].cb = "onResume"}
          IN  /\ act[Top].kind \in ListKinds
              /\ op'.arg = Top
              /\ stack' = Front(stack)
              /\ stack' # <<>>
              /\ act'[Top].life = "Destroyed"
              /\ row.ok
              /\ resumed # {}
              /\ \A i \in resumed :
                    /\ calls'[i].id = stack'[Len(stack')]
                    /\ calls'[i].b = [key |-> key, val |-> row.val]
              /\ status' = "running"
              /\ ret' # "False"]_vars

C32_Witness ==
    /\ op.name = "finish"
    /\ stack = <<1>> /\ status = "running"
    /\ act[2].kind = "MailboxListActivity" /\ act[2].life = "Destroyed"
    /\ \E i \in 1..Len(calls) :
          /\ calls[i].cb = "onResume" /\ calls[i].id = 1
          /\ calls[i].b = [key |-> "mailbox_path", val |-> "d/Sent"]
    /\ act[1].mbpath = "d/Sent"
    /\ child = NoChild

\* C33: a key claimed by the list of a screen (up, down, page up, page
\* down, left, right, and n / p while it highlights) changes only that
\* list: no screen is pushed or popped, the loop goes on, no filter or
\* search starts or ends, and the other screen's list, the saved cursor and
\* the attachments are untouched.  (Redrawing the inbox may fetch rows of
\* the mailbox into the adapter; the rows it answers with stay the same.)
C33_ClaimedKeyOnlyMovesList ==
    [][/\ (IUp \/ IDown \/ IPPage \/ INPage \/ INext \/ IPrev) =>
             /\ UNCHANGED <<stack, act, nAlloc, status, listviewpos, child,
                            attachment>>
             /\ ad'.filtered = ad.filtered
             /\ ad'.fdata = ad.fdata
             /\ ad'.mailbox = ad.mailbox
             /\ lv'.highlight = lv.highlight
             /\ lv'.hltext = lv.hltext
       /\ (CUp \/ CDown \/ CPPage \/ CNPage \/ CLeft \/ CRight
              \/ CNext \/ CPrev) =>
             /\ UNCHANGED <<stack, act, nAlloc, status, listviewpos, lv, ad,
                            attachment>>
             /\ child'.data = child.data
             /\ child'.message = child.message
             /\ child'.lv.highlight = child.lv.highlight
             /\ child'.lv.hltext = child.lv.hltext]_vars

C33_Witness ==
    /\ vop.name = "child key"
    /\ Len(stack) = 2 /\ act[Top].kind = "MessageActivity"
    /\ status = "running"
    /\ child.lv.highlight
    /\ child.lv.pos = 5
    /\ child.lv.x = 1
    /\ lv.pos = 2

\* C37: in a message screen get_attachment(row) returns an attachment only
\* for the attachment rows of the message that screen displays, and then
\* that message's attachment; for every other row, and for every row of a
\* message without attachments, it returns the fail value, whatever
\* messages were opened and closed before.
C37_AttachmentOfShownMessage ==
    [][MAttach =>
          LET m == child.message
              first == Len(HeaderRows(m))
              row == vop'.arg
          IN  IF first <= row /\ row < first + Len(GetAttachments(m))
              THEN vop'.got = GetAttachments(m)[row - first + 1]
              ELSE vop'.got = NoAttachment]_vars

\* C39: in the running application the stack is never deeper than 2 and
\* its bottom screen is always the inbox: only the inbox starts screens
\* (message, mailbox list, profile list) and none of those starts another.
C39_DepthAtMostTwo ==
    /\ Len(stack) <= 2
    /\ stack # <<>> => act[stack[1]].kind = "InboxActivity"
    /\ \A i \in 2..Len(stack) : act[stack[i]].kind # "InboxActivity"

C39_Witness ==
    /\ Len(stack) = 2 /\ status = "running"
    /\ act[stack[1]].kind = "InboxActivity"
    /\ act[2].kind \in ListKinds /\ act[2].life = "Destroyed"
    /\ stack[2] = 3 /\ act[3].kind = "MessageActivity"
    /\ vop.name = "attach"

-----------------------------------------------------------------------------
(* The application *)

\* C34: the input loop ends only when a quit-key pop has exhausted the
\* stack: while a screen remains on the stack after a key, the loop is still
\* running, whatever the key was (Enter, a search with an empty text, ...).
C34_LoopEndsOnlyByQuit ==
    status # "running" => (stack = <<>> /\ op.name = "quit")

\* C35: Enter in the inbox opens the message whose row is displayed under
\* the cursor in the current source: with a filter active and the cursor on
\* filtered row j, the message screen gets the message of the mailbox that
\* produced that row (its number is in the row), not message j.
C35_EnterOpensRowUnderCursor ==
    [][(op' # op /\ op'.name = "push"
          /\ act'[op'.arg].kind = "MessageActivity") =>
          LET row == GetItem(ad, lv.pos)
          IN  /\ row.ok
              /\ vop'.name = "enter"
              /\ vop'.arg = row.val.num - 1
              /\ child'.message = ad.mailbox[row.val.num]]_vars

\* C38: the undo key pressed in the inbox while no filter is active leaves
\* the list's cursor, top and bottom as they are, whatever happened before
\* (a filter may have been active when the inbox changed mailbox or
\* profile): a saved cursor is used only by the undo that removes the
\* filter it was saved for.
C38_UndoWithoutFilterKeepsView ==
    [][(IUndo /\ ~ad.filtered) =>
          /\ lv'.pos = lv.pos
          /\ lv'.top = lv.top
          /\ lv'.bottom = lv.bottom]_vars

\* C40: when the screen above the inbox is popped with no bundle (quit key)
\* or with a bundle naming the mailbox or profile that is already current,
\* the resumed inbox is as it was: same profile and mailbox, same source and
\* filter, same list (cursor, top, bottom).  The inbox is rebuilt, with a new
\* unfiltered source over the mailbox named (or the inbox of the profile
\* named) and the cursor on row 0, only when the bundle names another
\* mailbox or profile.
C40_ResumeKeepsInbox ==
    [][(op' # op /\ op'.name \in {"quit", "finish"} /\ Len(stack) = 2) =>
          LET me == stack[1]
              b == calls'[3].b
              other == \/ b.key = "mailbox_path" /\ b.val # act[me].mbpath
                       \/ b.key = "profilename" /\ b.val # act[me].profile
              path == IF b.key = "mailbox_path" THEN b.val
                      ELSE InboxPath(b.val)
          IN  /\ calls'[3].cb = "onResume" /\ calls'[3].id = me
              /\ op'.name = "quit" => b = NoBundle
              /\ IF other
                 THEN /\ act'[me].mbpath = path
                      /\ b.key = "profilename" => act'[me].profile = b.val
                      /\ ad'.mailbox = MailboxAt(path)
                      /\ ~ad'.filtered
                      /\ lv'.pos = 0 /\ lv'.top = 0 /\ ~lv'.highlight
                 ELSE /\ act'[me].mbpath = act[me].mbpath
                      /\ act'[me].profile = act[me].profile
                      /\ ad' = ad
                      /\ lv' = lv]_vars

C40_Witness ==
    /\ op.name = "finish" /\ stack = <<1>> /\ status = "running"
    /\ calls[3].cb = "onResume"
    /\ calls[3].b = [key |-> "mailbox_path", val |-> "d/Sent"]
    /\ act[1].mbpath = "d/Sent"
    /\ nAlloc = 3
    /\ ad.filtered
    /\ lv.pos = 1

====
